---- MODULE Spec2Model ----
(***************************************************************************)
(* Naumachia: smart-contract facade (hit_endpoint), contract logic of the  *)
(* escrow and always-succeeds contracts, and the in-memory ledger client   *)
(* they submit to.  A client runs hit_endpoint in two steps, split at the  *)
(* await of issue: handle_endpoint + to_unbuilt_tx (reads the ledger),     *)
(* then issue (the only step that writes it).                              *)
(***************************************************************************)
EXTENDS Integers, Sequences, FiniteSets, TLC

\* ---------------------------------------------------------------- bounds
MaxTx == 2
MaxAmount == 2
StartAmount == 2

\* the width the 64-bit integers are scaled down to
IntBits == 4

I64Max == 2^(IntBits - 1) - 1

I64Min == -(2^(IntBits - 1))

\* the two's-complement value of an integer that left the i64 range
WrapI64(n) == ((n + 2^(IntBits - 1)) % 2^IntBits) - 2^(IntBits - 1)

\* a + b on i64: a sum outside the range panics in a build with overflow
\* checks and wraps in a build without them
AddI64(a, b, overflow_checks) ==
    IF I64Min <= a + b /\ a + b <= I64Max THEN [ok |-> TRUE, val |-> a + b]
    ELSE IF overflow_checks
    THEN [ok |-> FALSE, kind |-> "Panic", cause |-> "attempt to add with overflow"]
    ELSE [ok |-> TRUE, val |-> WrapI64(a + b)]

Clients == {1, 2}
Amounts == 0..MaxAmount

\* ------------------------------------------------------------- addresses
Me == "me"
Alice == "alice"
Wallets == {Me, Alice}
EscrowAddress == "escrow validator"
AlwaysAddress == "always_true.spend"
CheckingAddress == "checking_account_validator.spend"
PullAddress == "pull_validator.spend"
Lovelace == <<"Lovelace">>
NativeToken(policy, asset_name) == <<"NativeToken", policy, asset_name>>
MIN_LOVELACE == 5000000
CHECKING_ACCOUNT_NFT_ASSET_NAME == "CHECKING ACCOUNT"
SPEND_TOKEN_ASSET_NAME == "SPEND TOKEN"

NoDatum == [none |-> TRUE]
NoBound == [none |-> TRUE]
UnitDatum == [unit |-> TRUE]

\* --------------------------------------------------------------- results
Ok(v) == [ok |-> TRUE, val |-> v]
Err(k, c) == [ok |-> FALSE, kind |-> k, cause |-> c]

\* ---------------------------------------------------------- Value algebra
\* A Values is a map from asset to quantity; an asset outside its domain
\* is absent.
ValuesDefault == [a \in {} |-> 0]

Get(v, a) == IF a \in DOMAIN v THEN v[a] ELSE 0

AddOneValue(v, a, q) ==
    [x \in DOMAIN v \cup {a} |-> Get(v, x) + (IF x = a THEN q ELSE 0)]

\* mutant of the merge: on a collision the left quantity is kept
AddValuesNoMerge(v, w) ==
    [x \in DOMAIN v \cup DOMAIN w |-> IF x \in DOMAIN v THEN v[x] ELSE w[x]]

AddValues(v, w) == [x \in DOMAIN v \cup DOMAIN w |-> Get(v, x) + Get(w, x)]

\* mutant of the comparison: an asset missing from a is not compared
CoversPresentOnly(a, b) == \A x \in DOMAIN b \cap DOMAIN a : b[x] <= a[x]

\* a covers b: no asset of b exceeds its quantity in a
Covers(a, b) == \A x \in DOMAIN b : b[x] <= Get(a, x)

\* the residue a - b with zero entries dropped (defined when Covers(a, b))
Residue(a, b) ==
    LET keep == {x \in DOMAIN a \cup DOMAIN b : Get(a, x) - Get(b, x) > 0}
    IN  [x \in keep |-> Get(a, x) - Get(b, x)]

\* mutant of try_subtract: an asset missing from a is skipped
TrySubtractSkipMissing(a, b) ==
    IF ~CoversPresentOnly(a, b) THEN Err("Arithmetic", "InsufficientAmount")
    ELSE IF DOMAIN Residue(a, b) = {} THEN Ok([some |-> FALSE])
    ELSE Ok([some |-> TRUE, values |-> Residue(a, b)])

\* try_subtract: an Arithmetic error when a quantity would go negative, None
\* when no value remains, otherwise the residue
TrySubtract(a, b) ==
    IF ~Covers(a, b) THEN Err("Arithmetic", "InsufficientAmount")
    ELSE IF DOMAIN Residue(a, b) = {} THEN Ok([some |-> FALSE])
    ELSE Ok([some |-> TRUE, values |-> Residue(a, b)])

\* a Values with its zero-quantity entries dropped
Normalize(v) == [x \in {y \in DOMAIN v : v[y] > 0} |-> v[x]]

\* mutant of the equality: the stored entries are compared as they are
ValuesEqStored(a, b) == a = b

\* equality of Values: by normalized mapping
ValuesEq(a, b) == Normalize(a) = Normalize(b)

RECURSIVE SumValues(_)
SumValues(outs) ==
    IF outs = <<>> THEN ValuesDefault
    ELSE AddValues(Head(outs).values, SumValues(Tail(outs)))

\* ----------------------------------------------------------- Output model
\* mutants of OutputId::new: one field of the pair is dropped
OutputIdNewNoIndex(tx_hash, index) == <<tx_hash, 0>>

OutputIdNewNoHash(tx_hash, index) == <<0, index>>

OutputIdNew(tx_hash, index) == <<tx_hash, index>>

\* mutant of new_wallet: the values are not stored
OutputNewWalletNoValues(tx_hash, index, owner, values) ==
    [id |-> OutputIdNew(tx_hash, index), kind |-> "Wallet", owner |-> owner,
     values |-> ValuesDefault, datum |-> NoDatum]

OutputNewWallet(tx_hash, index, owner, values) ==
    [id |-> OutputIdNew(tx_hash, index), kind |-> "Wallet", owner |-> owner,
     values |-> values, datum |-> NoDatum]

\* mutant of new_validator: the index is counted from one
OutputNewValidatorFromOne(tx_hash, index, owner, values, datum) ==
    [id |-> OutputIdNew(tx_hash, index + 1), kind |-> "Validator", owner |-> owner,
     values |-> values, datum |-> datum]

OutputNewValidator(tx_hash, index, owner, values, datum) ==
    [id |-> OutputIdNew(tx_hash, index), kind |-> "Validator", owner |-> owner,
     values |-> values, datum |-> datum]

UnbuiltNewWallet(owner, values) ==
    [kind |-> "Wallet", owner |-> owner, values |-> values, datum |-> NoDatum]

\* mutant of UnbuiltOutput::new_validator: the datum is dropped
UnbuiltNewValidatorNoDatum(script_address, values, datum) ==
    [kind |-> "Validator", owner |-> script_address, values |-> values,
     datum |-> NoDatum]

UnbuiltNewValidator(script_address, values, datum) ==
    [kind |-> "Validator", owner |-> script_address, values |-> values,
     datum |-> datum]

VARIABLES
    contract,   \* which contract logic the SmartContract facade wraps
    utxos,      \* the in-memory ledger's UTXO set, in insertion order
    signer,     \* the ledger's current signer
    txCount,    \* the next simulated transaction hash
    pending,    \* per client: the built transaction awaiting issue, or idle
    spent,      \* history: OutputId -> number of committed submissions that consumed it
    last        \* history: the hit_endpoint call that finished last

vars == <<contract, utxos, signer, txCount, pending, spent, last>>

\* -------------------------------------------------------- sequence helpers
SeqMap(Op(_), s) == [i \in 1..Len(s) |-> Op(s[i])]

\* the first n elements of a sequence (all of it when it is shorter)
Take(s, n) == SubSeq(s, 1, IF n < Len(s) THEN n ELSE Len(s))

IdsOf(outs) == {outs[i].id : i \in 1..Len(outs)}

\* Iterator::find(|o| o.id() == id): the first match, or none
FindById(outs, id) ==
    LET m == SelectSeq(outs, LAMBDA o : o.id = id)
    IN  IF m = <<>> THEN [found |-> FALSE] ELSE [found |-> TRUE, output |-> m[1]]

\* ------------------------------------------------- LedgerClient (queries)
all_outputs_at_address(address) == SelectSeq(utxos, LAMBDA o : o.owner = address)

outputs_at_address(address) == all_outputs_at_address(address)

balance_at_address(address, asset) ==
    Get(SumValues(all_outputs_at_address(address)), asset)

\* ------------------------------------------------------------- validators
\* mutant of signer_is_recipient: the comparison is lost
signer_is_recipient_always(datum, ctx) == Ok("unit")

\* EscrowValidatorScript: signer_is_recipient
signer_is_recipient(datum, ctx) ==
    IF datum.receiver # ctx.signer
    THEN Err("ScriptExecution", "FailedToExecute")
    ELSE Ok("unit")

EscrowValidatorExecute(datum, redeemer, ctx) == signer_is_recipient(datum, ctx)

\* the always_true.spend blueprint validator
AlwaysSucceedsExecute(datum, redeemer, ctx) == Ok("unit")

\* mutant of the time gate: the inclusive flag of the bound is ignored
PullTimeGateAnyBound(datum, ctx) ==
    /\ ctx.range.lower # NoBound
    /\ ctx.range.lower.value >= datum.next_pull

\* the time gate of pull_validator.spend: the lower bound of the valid range
\* is after next_pull, or at next_pull and inclusive
PullTimeGate(datum, ctx) ==
    /\ ctx.range.lower # NoBound
    /\ \/ ctx.range.lower.value > datum.next_pull
       \/ ctx.range.lower.value = datum.next_pull /\ ctx.range.lower.inclusive

PullHoldsToken(datum, v) ==
    \E x \in DOMAIN v :
        x[1] = "NativeToken" /\ x[2] = datum.spending_token /\ v[x] >= 1

\* mutant of the datum rule: the new next_pull is not compared
PullRenewedAnyDate(datum, o) ==
    /\ o.kind = "Validator" /\ o.owner = PullAddress
    /\ o.datum # NoDatum
    /\ o.datum.tag = "AllowedPuller"
    /\ o.datum.period = datum.period
    /\ o.datum.spending_token = datum.spending_token
    /\ PullHoldsToken(datum, o.values)

\* the rule of pull_validator.spend on the output that renews the datum
PullRenewed(datum, o) ==
    /\ o.kind = "Validator" /\ o.owner = PullAddress
    /\ o.datum # NoDatum
    /\ o.datum.tag = "AllowedPuller"
    /\ o.datum.next_pull = datum.next_pull + datum.period
    /\ o.datum.period = datum.period
    /\ o.datum.spending_token = datum.spending_token
    /\ PullHoldsToken(datum, o.values)

\* pull_validator.spend: the time gate and the rule on the new datum
PullValidatorExecute(datum, redeemer, ctx) ==
    IF datum.tag = "AllowedPuller" /\ PullTimeGate(datum, ctx)
        /\ \E i \in 1..Len(ctx.outputs) : PullRenewed(datum, ctx.outputs[i])
    THEN Ok("unit")
    ELSE Err("ScriptExecution", "FailedToExecute")

\* checking_account_validator.spend
CheckingAccountValidatorExecute(datum, redeemer, ctx) == Ok("unit")

Execute(script, datum, redeemer, ctx) ==
    IF script = "escrow" THEN EscrowValidatorExecute(datum, redeemer, ctx)
    ELSE IF script = "pull" THEN PullValidatorExecute(datum, redeemer, ctx)
    ELSE IF script = "checking"
    THEN CheckingAccountValidatorExecute(datum, redeemer, ctx)
    ELSE AlwaysSucceedsExecute(datum, redeemer, ctx)

\* the value of a hexadecimal digit, in either case
HexDigits ==
    ("0" :> 0) @@ ("1" :> 1) @@ ("2" :> 2) @@ ("3" :> 3) @@ ("4" :> 4) @@ ("5" :> 5)
        @@ ("6" :> 6) @@ ("7" :> 7) @@ ("8" :> 8) @@ ("9" :> 9)
        @@ ("a" :> 10) @@ ("b" :> 11) @@ ("c" :> 12) @@ ("d" :> 13) @@ ("e" :> 14)
        @@ ("f" :> 15) @@ ("A" :> 10) @@ ("B" :> 11) @@ ("C" :> 12) @@ ("D" :> 13)
        @@ ("E" :> 14) @@ ("F" :> 15)

\* hex::decode of a sequence of characters: two digits make a byte
HexDecode(chars) ==
    IF Len(chars) % 2 = 1 THEN Err("FromHexError", "OddLength")
    ELSE IF \E i \in 1..Len(chars) : chars[i] \notin DOMAIN HexDigits
    THEN Err("FromHexError", "InvalidHexCharacter")
    ELSE Ok([i \in 1..(Len(chars) \div 2) |->
                16 * HexDigits[chars[2 * i - 1]] + HexDigits[chars[2 * i]]])

\* minicbor Decoder::bytes: the definite-length byte string at the head of the
\* input, its length in the header byte (0x40 to 0x57); any other input is a
\* decoding error
CborBytes(cbor) ==
    IF cbor = <<>> THEN Err("Decode", "EndOfInput")
    ELSE IF cbor[1] < 64 \/ cbor[1] > 87 THEN Err("Decode", "TypeMismatch")
    ELSE IF Len(cbor) < cbor[1] - 64 + 1 THEN Err("Decode", "EndOfInput")
    ELSE Ok(SubSeq(cbor, 2, cbor[1] - 64 + 1))

\* as_failed_to_execute: the cause becomes ScriptError::FailedToExecute
as_failed_to_execute(error) == Err("ScriptExecution", "FailedToExecute")

\* a script file: its cborHex text, and with it what Program::from_flat and
\* the conversion to named de Bruijn indices make of the flat bytes inside
PlutusScriptFile(cborHex, program) == [cborHex |-> cborHex, program |-> program]

\* RawPolicy::new_v1: the text is hex decoded and read as a script
RawPolicyNewV1(script_file) ==
    LET script_bytes == HexDecode(script_file.cborHex)
    IN  IF ~script_bytes.ok THEN Err("RawPlutusScriptError", "CMLError")
        ELSE IF ~CborBytes(script_bytes.val).ok
        THEN Err("RawPlutusScriptError", "CMLError")
        ELSE Ok([kind |-> "raw", script_file |-> script_file])

\* mutant of RawPolicy::execute: a decoded program is reported as accepted
RawPolicyExecuteAccepting(policy, redeemer, ctx) ==
    LET cbor == HexDecode(policy.script_file.cborHex)
    IN  IF ~cbor.ok THEN as_failed_to_execute(cbor)
        ELSE IF ~CborBytes(cbor.val).ok THEN as_failed_to_execute(CborBytes(cbor.val))
        ELSE IF ~CborBytes(CborBytes(cbor.val).val).ok
        THEN as_failed_to_execute(CborBytes(CborBytes(cbor.val).val))
        ELSE Ok("unit")

\* RawPolicy::execute: the script is decoded (hex, two layers of CBOR bytes,
\* flat) and then todo!() is reached; the decoding errors are returned, a
\* failed from_flat is unwrapped
RawPolicyExecute(policy, redeemer, ctx) ==
    LET cbor == HexDecode(policy.script_file.cborHex)
    IN  IF ~cbor.ok THEN as_failed_to_execute(cbor)
        ELSE LET outer == CborBytes(cbor.val)
             IN  IF ~outer.ok THEN as_failed_to_execute(outer)
                 ELSE LET flat == CborBytes(outer.val)
                      IN  IF ~flat.ok THEN as_failed_to_execute(flat)
                          ELSE IF policy.script_file.program = "NotFlat"
                          THEN Err("Panic", "called Result::unwrap() on an Err value")
                          ELSE IF policy.script_file.program = "NotConvertible"
                          THEN as_failed_to_execute(policy.script_file.program)
                          ELSE Err("Panic", "not yet implemented")

\* one_shot minting policy: the output it was parameterized with is spent
OneShotExecute(policy, redeemer, ctx) ==
    IF policy.ref \in {ctx.inputs[i].id : i \in 1..Len(ctx.inputs)}
    THEN Ok("unit")
    ELSE Err("ScriptExecution", "FailedToExecute")

PolicyExecute(policy, redeemer, ctx) ==
    IF policy.kind = "raw" THEN RawPolicyExecute(policy, redeemer, ctx)
    ELSE OneShotExecute(policy, redeemer, ctx)

\* ---------------------------------------------------------------- actions
InitScriptOutput(datum, values, address) ==
    [type |-> "InitScriptOutput", datum |-> datum, values |-> values,
     address |-> address]

RedeemScriptOutput(output, redeemer, script) ==
    [type |-> "RedeemScriptOutput", output |-> output, redeemer |-> redeemer,
     script |-> script]

Mint(amount, asset_name, redeemer, policy) ==
    [type |-> "Mint", amount |-> amount, asset_name |-> asset_name,
     redeemer |-> redeemer, policy |-> policy]

SpecificInput(output) == [type |-> "SpecificInput", output |-> output]

ValidRange(lower, upper) == [type |-> "ValidRange", lower |-> lower, upper |-> upper]

\* ---------------------------------------------------- escrow contract logic
\* mutant of escrow: one unit more than the amount is locked
escrow_off_by_one(amount, receiver) ==
    LET datum == [receiver |-> receiver]
        values == AddOneValue(ValuesDefault, Lovelace, amount + 1)
    IN  Ok(<<InitScriptOutput(datum, values, EscrowAddress)>>)

escrow(amount, receiver) ==
    LET datum == [receiver |-> receiver]
        values == AddOneValue(ValuesDefault, Lovelace, amount)
    IN  Ok(<<InitScriptOutput(datum, values, EscrowAddress)>>)

lookup_output(id) ==
    LET f == FindById(outputs_at_address(EscrowAddress), id)
    IN  IF f.found THEN Ok(f.output) ELSE Err("Lookup", "OutputNotFound")

\* mutant of claim: the claimed value is locked again under the same datum
claim_relock(output_id) ==
    LET output == lookup_output(output_id)
    IN  IF ~output.ok THEN output
        ELSE Ok(<<RedeemScriptOutput(output.val, "unit", "escrow"),
                  InitScriptOutput(output.val.datum, output.val.values,
                                   EscrowAddress)>>)

claim(output_id) ==
    LET output == lookup_output(output_id)
    IN  IF ~output.ok THEN output
        ELSE Ok(<<RedeemScriptOutput(output.val, "unit", "escrow")>>)

EscrowHandleEndpoint(endpoint) ==
    IF endpoint.type = "Escrow" THEN escrow(endpoint.amount, endpoint.receiver)
    ELSE claim(endpoint.output_id)

\* -------------------------------------------- always-succeeds contract logic
impl_lock(amount) ==
    LET values == AddOneValue(ValuesDefault, Lovelace, amount)
    IN  Ok(<<InitScriptOutput(UnitDatum, values, AlwaysAddress)>>)

\* mutant of impl_claim: find() ignores the id and takes the first output
impl_claim_any(output_id) ==
    LET outs == all_outputs_at_address(AlwaysAddress)
    IN  IF outs = <<>> THEN Err("Endpoint", "OutputNotFound")
        ELSE Ok(<<RedeemScriptOutput(outs[1], "unit", "always")>>)

impl_claim(output_id) ==
    LET f == FindById(all_outputs_at_address(AlwaysAddress), output_id)
    IN  IF ~f.found THEN Err("Endpoint", "OutputNotFound")
        ELSE Ok(<<RedeemScriptOutput(f.output, "unit", "always")>>)

AlwaysSucceedsHandleEndpoint(endpoint) ==
    IF endpoint.type = "Lock" THEN impl_lock(endpoint.amount)
    ELSE impl_claim(endpoint.output_id)

\* ------------------------------------------------ TxActions::to_unbuilt_tx
\* ------------------------------------------------ checking account logic
CheckingAccount(owner, spend_token_policy) ==
    [tag |-> "CheckingAccount", owner |-> owner,
     spend_token_policy |-> spend_token_policy]

AllowedPuller(owner, puller, amount, next_pull, period, token, address, nft) ==
    [tag |-> "AllowedPuller", owner |-> owner, puller |-> puller,
     amount_lovelace |-> amount, next_pull |-> next_pull,
     period |-> period, spending_token |-> token,
     checking_account_address |-> address, checking_account_nft |-> nft]

OneShotPolicy(output) == [kind |-> "one_shot", ref |-> output.id]

SpendTokenPolicy(nft_script_id, owner_pubkey) ==
    [kind |-> "spend_token", nft |-> nft_script_id, owner |-> owner_pubkey]

\* mutant of select_any_above_min: an output holding exactly the minimum qualifies
select_any_above_min_inclusive ==
    LET above == SelectSeq(all_outputs_at_address(signer), LAMBDA input :
                     Lovelace \in DOMAIN input.values
                         /\ input.values[Lovelace] >= MIN_LOVELACE)
    IN  IF above = <<>> THEN Err("Endpoint", "InputNotFound")
        ELSE Ok(above[Len(above)])

\* the qualifying outputs are collected and the last one is popped
select_any_above_min ==
    LET above == SelectSeq(all_outputs_at_address(signer), LAMBDA input :
                     Lovelace \in DOMAIN input.values
                         /\ input.values[Lovelace] > MIN_LOVELACE)
    IN  IF above = <<>> THEN Err("Endpoint", "InputNotFound")
        ELSE Ok(above[Len(above)])

\* mutant of init_account: the minted token is left out of the locked values
init_account_token_not_locked(starting_lovelace) ==
    LET owner == signer
        selected == select_any_above_min
    IN  IF ~selected.ok THEN selected
        ELSE
        LET my_input == selected.val
            nft_policy == OneShotPolicy(my_input)
            spending_token_policy == SpendTokenPolicy(nft_policy, owner)
            datum == CheckingAccount(owner, spending_token_policy)
            values == AddOneValue(ValuesDefault, Lovelace, starting_lovelace)
        IN  Ok(<<InitScriptOutput(datum, values, CheckingAddress),
                 SpecificInput(my_input),
                 Mint(1, CHECKING_ACCOUNT_NFT_ASSET_NAME, "unit", nft_policy)>>)

init_account(starting_lovelace) ==
    LET owner == signer
        selected == select_any_above_min
    IN  IF ~selected.ok THEN selected
        ELSE
        LET my_input == selected.val
            nft_policy == OneShotPolicy(my_input)
            spending_token_policy == SpendTokenPolicy(nft_policy, owner)
            datum == CheckingAccount(owner, spending_token_policy)
            values == AddOneValue(
                        AddOneValue(ValuesDefault, Lovelace, starting_lovelace),
                        NativeToken(nft_policy, CHECKING_ACCOUNT_NFT_ASSET_NAME), 1)
        IN  Ok(<<InitScriptOutput(datum, values, CheckingAddress),
                 SpecificInput(my_input),
                 Mint(1, CHECKING_ACCOUNT_NFT_ASSET_NAME, "unit", nft_policy)>>)

\* mutant of the pull: the checking account is redeemed with the
\* always-succeeds script instead of its own validator
pull_from_account_always_script(allow_pull_output_id, checking_account_output_id, amount) ==
    LET allow == FindById(all_outputs_at_address(PullAddress), allow_pull_output_id)
        account == FindById(all_outputs_at_address(CheckingAddress),
                            checking_account_output_id)
    IN  IF ~allow.found THEN Err("Endpoint", "OutputNotFound")
        ELSE IF ~account.found THEN Err("Endpoint", "OutputNotFound")
        ELSE
        LET allow_pull_output == allow.output
            checking_account_output == account.output
            old_allow_pull_datum == allow_pull_output.datum
        IN  IF old_allow_pull_datum = NoDatum THEN Err("Endpoint", "OutputNotFound")
            ELSE IF old_allow_pull_datum.tag # "AllowedPuller"
            THEN Err("Panic", "unimplemented")
            ELSE IF checking_account_output.datum = NoDatum
            THEN Err("Endpoint", "OutputNotFound")
            ELSE
            LET next_pull == old_allow_pull_datum.next_pull
                                + old_allow_pull_datum.period
                new_allow_pull_datum ==
                    [old_allow_pull_datum EXCEPT !.next_pull = next_pull]
                sub_values == AddOneValue(ValuesDefault, Lovelace, amount)
                new_account_value ==
                    TrySubtract(checking_account_output.values, sub_values)
            IN  IF ~new_account_value.ok THEN Err("Endpoint", "Arithmetic")
                ELSE IF ~new_account_value.val.some
                THEN Err("Endpoint", "OutputNotFound")
                ELSE Ok(<<RedeemScriptOutput(allow_pull_output, "unit", "pull"),
                          InitScriptOutput(new_allow_pull_datum,
                                           allow_pull_output.values, PullAddress),
                          RedeemScriptOutput(checking_account_output, "unit",
                                             "always"),
                          InitScriptOutput(checking_account_output.datum,
                                           new_account_value.val.values,
                                           CheckingAddress),
                          ValidRange([value |-> next_pull, inclusive |-> TRUE],
                                     NoBound)>>)

\* mutant of the pull: the account is put back with its old value
pull_from_account_no_debit(allow_pull_output_id, checking_account_output_id, amount) ==
    LET allow == FindById(all_outputs_at_address(PullAddress), allow_pull_output_id)
        account == FindById(all_outputs_at_address(CheckingAddress),
                            checking_account_output_id)
    IN  IF ~allow.found THEN Err("Endpoint", "OutputNotFound")
        ELSE IF ~account.found THEN Err("Endpoint", "OutputNotFound")
        ELSE
        LET allow_pull_output == allow.output
            checking_account_output == account.output
            old_allow_pull_datum == allow_pull_output.datum
        IN  IF old_allow_pull_datum = NoDatum THEN Err("Endpoint", "OutputNotFound")
            ELSE IF old_allow_pull_datum.tag # "AllowedPuller"
            THEN Err("Panic", "unimplemented")
            ELSE IF checking_account_output.datum = NoDatum
            THEN Err("Endpoint", "OutputNotFound")
            ELSE
            LET next_pull == old_allow_pull_datum.next_pull
                                + old_allow_pull_datum.period
                new_allow_pull_datum ==
                    [old_allow_pull_datum EXCEPT !.next_pull = next_pull]
                sub_values == AddOneValue(ValuesDefault, Lovelace, amount)
                new_account_value ==
                    TrySubtract(checking_account_output.values, sub_values)
            IN  IF ~new_account_value.ok THEN Err("Endpoint", "Arithmetic")
                ELSE IF ~new_account_value.val.some
                THEN Err("Endpoint", "OutputNotFound")
                ELSE Ok(<<RedeemScriptOutput(allow_pull_output, "unit", "pull"),
                          InitScriptOutput(new_allow_pull_datum,
                                           allow_pull_output.values, PullAddress),
                          RedeemScriptOutput(checking_account_output, "unit",
                                             "checking"),
                          InitScriptOutput(checking_account_output.datum,
                                           checking_account_output.values,
                                           CheckingAddress),
                          ValidRange([value |-> next_pull, inclusive |-> TRUE],
                                     NoBound)>>)

\* mutant of pull_from_account: the declared range starts at the old next_pull
pull_from_account_in_old_date(allow_pull_output_id, checking_account_output_id, amount, overflow_checks) ==
    LET allow == FindById(all_outputs_at_address(PullAddress), allow_pull_output_id)
        account == FindById(all_outputs_at_address(CheckingAddress),
                            checking_account_output_id)
    IN  IF ~allow.found THEN Err("Endpoint", "OutputNotFound")
        ELSE IF ~account.found THEN Err("Endpoint", "OutputNotFound")
        ELSE
        LET allow_pull_output == allow.output
            checking_account_output == account.output
            old_allow_pull_datum == allow_pull_output.datum
        IN  IF old_allow_pull_datum = NoDatum THEN Err("Endpoint", "OutputNotFound")
            ELSE IF old_allow_pull_datum.tag # "AllowedPuller"
            THEN Err("Panic", "unimplemented")
            ELSE
            LET next_pull_date == AddI64(old_allow_pull_datum.next_pull,
                                         old_allow_pull_datum.period, overflow_checks)
            IN  IF ~next_pull_date.ok THEN next_pull_date
            ELSE IF checking_account_output.datum = NoDatum
            THEN Err("Endpoint", "OutputNotFound")
            ELSE
            LET next_pull == next_pull_date.val
                new_allow_pull_datum ==
                    [old_allow_pull_datum EXCEPT !.next_pull = next_pull]
                sub_values == AddOneValue(ValuesDefault, Lovelace, amount)
                new_account_value ==
                    TrySubtract(checking_account_output.values, sub_values)
            IN  IF ~new_account_value.ok THEN Err("Endpoint", "Arithmetic")
                ELSE IF ~new_account_value.val.some
                THEN Err("Endpoint", "OutputNotFound")
                ELSE Ok(<<RedeemScriptOutput(allow_pull_output, "unit", "pull"),
                          InitScriptOutput(new_allow_pull_datum,
                                           allow_pull_output.values, PullAddress),
                          RedeemScriptOutput(checking_account_output, "unit",
                                             "checking"),
                          InitScriptOutput(checking_account_output.datum,
                                           new_account_value.val.values,
                                           CheckingAddress),
                          ValidRange([value |-> old_allow_pull_datum.next_pull,
                                      inclusive |-> TRUE],
                                     NoBound)>>)

\* pull_from_account in a build with or without overflow checks
pull_from_account_in(allow_pull_output_id, checking_account_output_id, amount, overflow_checks) ==
    LET allow == FindById(all_outputs_at_address(PullAddress), allow_pull_output_id)
        account == FindById(all_outputs_at_address(CheckingAddress),
                            checking_account_output_id)
    IN  IF ~allow.found THEN Err("Endpoint", "OutputNotFound")
        ELSE IF ~account.found THEN Err("Endpoint", "OutputNotFound")
        ELSE
        LET allow_pull_output == allow.output
            checking_account_output == account.output
            old_allow_pull_datum == allow_pull_output.datum
        IN  IF old_allow_pull_datum = NoDatum THEN Err("Endpoint", "OutputNotFound")
            ELSE IF old_allow_pull_datum.tag # "AllowedPuller"
            THEN Err("Panic", "unimplemented")
            ELSE
            LET next_pull_date == AddI64(old_allow_pull_datum.next_pull,
                                         old_allow_pull_datum.period, overflow_checks)
            IN  IF ~next_pull_date.ok THEN next_pull_date
            ELSE IF checking_account_output.datum = NoDatum
            THEN Err("Endpoint", "OutputNotFound")
            ELSE
            LET next_pull == next_pull_date.val
                new_allow_pull_datum ==
                    [old_allow_pull_datum EXCEPT !.next_pull = next_pull]
                sub_values == AddOneValue(ValuesDefault, Lovelace, amount)
                new_account_value ==
                    TrySubtract(checking_account_output.values, sub_values)
            IN  IF ~new_account_value.ok THEN Err("Endpoint", "Arithmetic")
                ELSE IF ~new_account_value.val.some
                THEN Err("Endpoint", "OutputNotFound")
                ELSE Ok(<<RedeemScriptOutput(allow_pull_output, "unit", "pull"),
                          InitScriptOutput(new_allow_pull_datum,
                                           allow_pull_output.values, PullAddress),
                          RedeemScriptOutput(checking_account_output, "unit",
                                             "checking"),
                          InitScriptOutput(checking_account_output.datum,
                                           new_account_value.val.values,
                                           CheckingAddress),
                          ValidRange([value |-> next_pull, inclusive |-> TRUE],
                                     NoBound)>>)

\* pull_from_account as the tests build it, with overflow checks
pull_from_account(allow_pull_output_id, checking_account_output_id, amount) ==
    pull_from_account_in(allow_pull_output_id, checking_account_output_id, amount, TRUE)

\* mutant of fund_account: the old account output is not redeemed
fund_account_no_redeem(output_id, amount) ==
    LET f == FindById(all_outputs_at_address(CheckingAddress), output_id)
    IN  IF ~f.found THEN Err("Endpoint", "OutputNotFound")
        ELSE IF f.output.datum = NoDatum THEN Err("Endpoint", "OutputNotFound")
        ELSE Ok(<<InitScriptOutput(f.output.datum,
                      AddOneValue(ValuesDefault, Lovelace, amount),
                      CheckingAddress)>>)

fund_account(output_id, amount) ==
    LET f == FindById(all_outputs_at_address(CheckingAddress), output_id)
    IN  IF ~f.found THEN Err("Endpoint", "OutputNotFound")
        ELSE IF f.output.datum = NoDatum THEN Err("Endpoint", "OutputNotFound")
        ELSE
        LET output == f.output
            new_datum == output.datum
            values == AddOneValue(output.values, Lovelace, amount)
        IN  Ok(<<RedeemScriptOutput(output, "unit", "checking"),
                 InitScriptOutput(new_datum, values, CheckingAddress)>>)

\* mutant of withdraw_from_account: when nothing remains the account is put
\* back with an empty value
withdraw_from_account_empty_on_none(output_id, amount) ==
    LET f == FindById(all_outputs_at_address(CheckingAddress), output_id)
    IN  IF ~f.found THEN Err("Endpoint", "OutputNotFound")
        ELSE IF f.output.datum = NoDatum THEN Err("Endpoint", "OutputNotFound")
        ELSE
        LET new_value == TrySubtract(f.output.values,
                             AddOneValue(ValuesDefault, Lovelace, amount))
        IN  IF ~new_value.ok THEN Err("Endpoint", "Arithmetic")
            ELSE Ok(<<RedeemScriptOutput(f.output, "unit", "checking"),
                      InitScriptOutput(f.output.datum,
                          IF new_value.val.some THEN new_value.val.values
                          ELSE ValuesDefault,
                          CheckingAddress)>>)

\* mutant of withdraw_from_account: the subtraction saturates at zero instead
\* of failing
withdraw_from_account_saturating(output_id, amount) ==
    LET f == FindById(all_outputs_at_address(CheckingAddress), output_id)
    IN  IF ~f.found THEN Err("Endpoint", "OutputNotFound")
        ELSE IF f.output.datum = NoDatum THEN Err("Endpoint", "OutputNotFound")
        ELSE Ok(<<RedeemScriptOutput(f.output, "unit", "checking"),
                  InitScriptOutput(f.output.datum,
                      Residue(f.output.values,
                              AddOneValue(ValuesDefault, Lovelace, amount)),
                      CheckingAddress)>>)

\* mutant of withdraw_from_account: the new output holds only the lovelace
\* that is left, the other assets of the account are dropped
withdraw_from_account_lovelace_only(output_id, amount) ==
    LET f == FindById(all_outputs_at_address(CheckingAddress), output_id)
    IN  IF ~f.found THEN Err("Endpoint", "OutputNotFound")
        ELSE IF f.output.datum = NoDatum THEN Err("Endpoint", "OutputNotFound")
        ELSE IF Get(f.output.values, Lovelace) < amount THEN Err("Endpoint", "Arithmetic")
        ELSE Ok(<<RedeemScriptOutput(f.output, "unit", "checking"),
                  InitScriptOutput(f.output.datum,
                      AddOneValue(ValuesDefault, Lovelace,
                                  Get(f.output.values, Lovelace) - amount),
                      CheckingAddress)>>)

withdraw_from_account(output_id, amount) ==
    LET f == FindById(all_outputs_at_address(CheckingAddress), output_id)
    IN  IF ~f.found THEN Err("Endpoint", "OutputNotFound")
        ELSE IF f.output.datum = NoDatum THEN Err("Endpoint", "OutputNotFound")
        ELSE
        LET output == f.output
            new_datum == output.datum
            old_values == output.values
            sub_values == AddOneValue(ValuesDefault, Lovelace, amount)
            new_value == TrySubtract(old_values, sub_values)
        IN  IF ~new_value.ok THEN Err("Endpoint", "Arithmetic")
            ELSE IF ~new_value.val.some THEN Err("Endpoint", "OutputNotFound")
            ELSE Ok(<<RedeemScriptOutput(output, "unit", "checking"),
                      InitScriptOutput(new_datum, new_value.val.values,
                                       CheckingAddress)>>)

CheckingAccountHandleEndpoint(endpoint) ==
    IF endpoint.type = "InitAccount"
    THEN init_account(endpoint.starting_lovelace)
    ELSE IF endpoint.type = "FundAccount"
    THEN fund_account(endpoint.output_id, endpoint.fund_amount)
    ELSE IF endpoint.type = "WithdrawFromAccount"
    THEN withdraw_from_account(endpoint.output_id, endpoint.withdraw_amount)
    ELSE pull_from_account(endpoint.allow_pull_output_id,
                           endpoint.checking_account_output_id, endpoint.amount)

\* mutant of the valid-range fold: the first declared range wins
ValidRangeOfFirst(actions) ==
    LET r == SelectSeq(actions, LAMBDA a : a.type = "ValidRange")
    IN  IF r = <<>> THEN [lower |-> NoBound, upper |-> NoBound]
        ELSE [lower |-> r[1].lower, upper |-> r[1].upper]

ValidRangeOf(actions) ==
    LET r == SelectSeq(actions, LAMBDA a : a.type = "ValidRange")
    IN  IF r = <<>> THEN [lower |-> NoBound, upper |-> NoBound]
        ELSE [lower |-> r[Len(r)].lower, upper |-> r[Len(r)].upper]

to_unbuilt_tx(actions) ==
    LET redeems == SelectSeq(actions, LAMBDA a : a.type = "RedeemScriptOutput")
        inits == SelectSeq(actions, LAMBDA a : a.type = "InitScriptOutput")
        mints == SelectSeq(actions, LAMBDA a : a.type = "Mint")
        specific == SelectSeq(actions, LAMBDA a : a.type = "SpecificInput")
        AsInput(a) == [output |-> a.output, redeemer |-> a.redeemer,
                       script |-> a.script]
        AsOutput(a) == UnbuiltNewValidator(a.address, a.values, a.datum)
        AsSpecific(a) == a.output
    IN  Ok([script_inputs |-> SeqMap(AsInput, redeems),
            unbuilt_outputs |-> SeqMap(AsOutput, inits),
            minting |-> mints,
            specific_wallet_inputs |-> SeqMap(AsSpecific, specific),
            valid_range |-> ValidRangeOf(actions)])

\* mutant of the declared spends: only the first script input is spent
DeclaredSpendsFirstScript(tx) ==
    tx.specific_wallet_inputs
        \o SeqMap(LAMBDA i : i.output, Take(tx.script_inputs, 1))

\* ------------------------------------------- in-memory ledger client: issue
\* the outputs the transaction declares as spent, in declaration order
DeclaredSpends(tx) ==
    tx.specific_wallet_inputs \o SeqMap(LAMBDA i : i.output, tx.script_inputs)

\* mutant of the lookup: the copy the transaction carries is trusted
LookupSpendTrusting(output) == Ok(output)

\* a declared spend is looked up in the UTXO set by its OutputId
LookupSpend(output) ==
    LET f == FindById(utxos, output.id)
    IN  IF f.found THEN Ok(f.output) ELSE Err("LedgerClient", "OutputNotFound")

MintedValues(tx) ==
    LET AsOut(m) == [values |-> AddOneValue(ValuesDefault,
                                   NativeToken(m.policy, m.asset_name), m.amount)]
    IN  SumValues(SeqMap(AsOut, tx.minting))

\* wallet outputs of the signer, first to last, taken until the need is met
RECURSIVE SelectInputs(_, _, _)
SelectInputs(cands, have, need) ==
    IF Covers(have, need) \/ cands = <<>> THEN <<>>
    ELSE <<Head(cands)>>
            \o SelectInputs(Tail(cands), AddValues(have, Head(cands).values), need)

BuildOutput(u, tx_hash, index) ==
    IF u.kind = "Wallet" THEN OutputNewWallet(tx_hash, index, u.owner, u.values)
    ELSE OutputNewValidator(tx_hash, index, u.owner, u.values, u.datum)

\* the scripts run for the spends, in order, stopping at the first rejection
RECURSIVE RunScripts(_, _)
RunScripts(script_inputs, ctx) ==
    IF script_inputs = <<>> THEN <<>>
    ELSE LET i == Head(script_inputs)
             o == LookupSpend(i.output).val
             c == [ctx EXCEPT !.purpose = <<"Spend", o.id>>]
             r == Execute(i.script, o.datum, i.redeemer, c)
             e == [script |-> i.script, id |-> o.id, datum |-> o.datum,
                   redeemer |-> i.redeemer, ctx |-> c, result |-> r]
         IN  IF r.ok THEN <<e>> \o RunScripts(Tail(script_inputs), ctx)
             ELSE <<e>>

\* the minting policies run for the mints, stopping at the first rejection
RECURSIVE RunPolicies(_, _)
RunPolicies(minting, ctx) ==
    IF minting = <<>> THEN <<>>
    ELSE LET m == Head(minting)
             c == [ctx EXCEPT !.purpose = <<"Mint", m.policy>>]
             r == PolicyExecute(m.policy, m.redeemer, c)
             e == [script |-> m.policy, id |-> <<"mint">>, datum |-> NoDatum,
                   redeemer |-> m.redeemer, ctx |-> c, result |-> r]
         IN  IF r.ok THEN <<e>> \o RunPolicies(Tail(minting), ctx)
             ELSE <<e>>

Rejected(execs) == \E i \in 1..Len(execs) : ~execs[i].result.ok

Failed(err) == [result |-> err, utxos |-> utxos, txCount |-> txCount,
                consumed |-> {}, execs |-> <<>>]

\* mutant of the commit: the consumed outputs are removed, nothing is inserted
CommitRemovalsOnly(tx_hash, consumed, created) ==
    SelectSeq(utxos, LAMBDA o : o.id \notin consumed)

Commit(tx_hash, consumed, created) ==
    SelectSeq(utxos, LAMBDA o : o.id \notin consumed) \o created

issue(tx) ==
    LET lookups == SeqMap(LookupSpend, DeclaredSpends(tx))
        missing == {i \in 1..Len(lookups) : ~lookups[i].ok}
    IN  IF missing # {} THEN Failed(lookups[CHOOSE i \in missing : \A j \in missing : i <= j])
        ELSE
        LET required == SeqMap(LAMBDA r : r.val, lookups)
            have == AddValues(SumValues(required), MintedValues(tx))
            need == SumValues(tx.unbuilt_outputs)
            cands == SelectSeq(utxos, LAMBDA o :
                        o.owner = signer /\ o.id \notin IdsOf(required))
            selected == SelectInputs(cands, have, need)
            inputs == required \o selected
            total == AddValues(have, SumValues(selected))
        IN  IF ~Covers(total, need) THEN Failed(Err("LedgerClient", "Balancing"))
            ELSE
            LET change == Residue(total, need)
                n == Len(tx.unbuilt_outputs)
                declaredOuts == [i \in 1..n |->
                                   BuildOutput(tx.unbuilt_outputs[i], txCount, i - 1)]
                changeOuts == IF DOMAIN change = {} THEN <<>>
                              ELSE <<OutputNewWallet(txCount, n, signer, change)>>
                created == declaredOuts \o changeOuts
                ctx == [signer |-> signer, range |-> tx.valid_range,
                        inputs |-> inputs,
                        outputs |-> tx.unbuilt_outputs
                                    \o SeqMap(LAMBDA o : UnbuiltNewWallet(o.owner, o.values),
                                              changeOuts),
                        purpose |-> <<"None">>]
                spends == RunScripts(tx.script_inputs, ctx)
                execs == IF Rejected(spends) THEN spends
                         ELSE spends \o RunPolicies(tx.minting, ctx)
            IN  IF Rejected(execs)
                THEN [Failed(execs[Len(execs)].result) EXCEPT !.execs = execs]
                ELSE [result |-> Ok(txCount),
                      utxos |-> Commit(txCount, IdsOf(inputs), created),
                      txCount |-> txCount + 1,
                      consumed |-> IdsOf(inputs),
                      execs |-> execs]

\* ----------------------------------------------- SmartContract::hit_endpoint
handle_endpoint(endpoint) ==
    IF contract = "escrow" THEN EscrowHandleEndpoint(endpoint)
    ELSE IF contract \in {"checking", "checking owner"}
    THEN CheckingAccountHandleEndpoint(endpoint)
    ELSE AlwaysSucceedsHandleEndpoint(endpoint)

\* ----------------------------------------------------- SmartContract::lookup
\* escrow: the outputs at the escrow script's address
EscrowLookup(query) == Ok(outputs_at_address(EscrowAddress))

\* always-succeeds: the first count outputs at the script's address
impl_list_active_contracts(count) == Ok(Take(outputs_at_address(AlwaysAddress), count))

\* checking account: todo!(), the call panics before reading anything
CheckingAccountLookup(query) == Err("Panic", "not yet implemented")

lookup(query) ==
    IF contract = "escrow" THEN EscrowLookup(query)
    ELSE IF contract \in {"checking", "checking owner"}
    THEN CheckingAccountLookup(query)
    ELSE impl_list_active_contracts(query.count)

\* mutant of hit_endpoint: a failed handle_endpoint is replaced by no actions
HitEndpointBuildSwallow(endpoint) ==
    LET tx_actions == handle_endpoint(endpoint)
    IN  IF ~tx_actions.ok THEN to_unbuilt_tx(<<>>) ELSE to_unbuilt_tx(tx_actions.val)

\* let tx_actions = handle_endpoint(..).await?; let tx = tx_actions.to_unbuilt_tx()?;
HitEndpointBuild(endpoint) ==
    LET tx_actions == handle_endpoint(endpoint)
    IN  IF ~tx_actions.ok THEN tx_actions ELSE to_unbuilt_tx(tx_actions.val)

\* mutant of hit_endpoint: the error of issue is swallowed
HitEndpointFinishSwallow(issued) == Ok(IF issued.ok THEN issued.val ELSE 0)

\* let tx_id = issue(tx).await?; Ok(tx_id)
HitEndpointFinish(issued) == IF ~issued.ok THEN issued ELSE Ok(issued.val)

\* Backend::process: let tx = actions.to_unbuilt_tx()?;
\* let tx_id = self.ledger_client.issue(tx).await?; Ok(())
BackendProcess(actions) ==
    LET tx == to_unbuilt_tx(actions)
    IN  IF ~tx.ok THEN tx
        ELSE LET issued == issue(tx.val).result
             IN  IF ~issued.ok THEN issued ELSE Ok("unit")

Idle == [state |-> "idle"]

KnownIds == IdsOf(utxos) \cup DOMAIN spent

\* ids of the outputs at the checking account's script addresses
ScriptIds == IdsOf(SelectSeq(utxos, LAMBDA o : o.kind = "Validator"))

Endpoints ==
    IF contract = "escrow"
    THEN [type : {"Escrow"}, amount : Amounts, receiver : Wallets]
            \cup [type : {"Claim"}, output_id : KnownIds]
    ELSE IF contract = "checking"
    THEN [type : {"InitAccount"}, starting_lovelace : Amounts]
            \cup [type : {"PullFromCheckingAccount"},
                  allow_pull_output_id : ScriptIds,
                  checking_account_output_id : ScriptIds, amount : Amounts]
    ELSE IF contract = "checking owner"
    THEN [type : {"FundAccount"}, output_id : KnownIds, fund_amount : Amounts]
            \cup [type : {"WithdrawFromAccount"}, output_id : KnownIds,
                  withdraw_amount : Amounts \cup {StartAmount + MaxAmount + 1}]
    ELSE [type : {"Lock"}, amount : Amounts]
            \cup [type : {"Claim"}, output_id : KnownIds]

NoCall == [stage |-> "none"]

Init ==
    /\ contract \in {"escrow", "always"}
    /\ utxos = <<OutputNewWallet(0, 0, Me, AddOneValue(ValuesDefault, Lovelace, StartAmount)),
                 OutputNewWallet(0, 1, Me, AddOneValue(ValuesDefault, Lovelace, 1))>>
    /\ signer = Me
    /\ txCount = 1
    /\ pending = [c \in Clients |-> Idle]
    /\ spent = [id \in {} |-> 0]
    /\ last = NoCall

\* the periods an allowed puller may have been set up with
Periods == {-1, 0, 1}

\* the account of the first pull test, before any pull
GenesisNft == [kind |-> "one_shot", ref |-> OutputIdNew(0, 4)]

\* the ledger of the checking account tests: a puller's wallet, an owner's
\* checking account and an allowed-puller output that is due
CheckingLedger(period) ==
    LET spending_token == SpendTokenPolicy(GenesisNft, Alice)
        account_values ==
            AddOneValue(AddOneValue(ValuesDefault, Lovelace, StartAmount),
                NativeToken(GenesisNft, CHECKING_ACCOUNT_NFT_ASSET_NAME), 1)
        allow_values ==
            AddOneValue(ValuesDefault,
                NativeToken(spending_token, SPEND_TOKEN_ASSET_NAME), 1)
    IN  <<OutputNewWallet(0, 0, Me,
              AddOneValue(ValuesDefault, Lovelace, MIN_LOVELACE + StartAmount)),
          OutputNewWallet(0, 1, Me, AddOneValue(ValuesDefault, Lovelace, 1)),
          OutputNewValidator(0, 2, CheckingAddress, account_values,
              CheckingAccount(Alice, spending_token)),
          OutputNewValidator(0, 3, PullAddress, allow_values,
              AllowedPuller(Alice, Me, 1, 0, period, spending_token,
                            CheckingAddress, GenesisNft))>>

\* a backend built for the checking account tests
InitCA ==
    /\ contract = "checking"
    /\ \E period \in Periods : utxos = CheckingLedger(period)
    /\ signer = Me
    /\ txCount = 1
    /\ pending = [c \in Clients |-> Idle]
    /\ spent = [id \in {} |-> 0]
    /\ last = NoCall

\* a backend built for the owner of a checking account: the owner's wallet
\* and the account
InitOwner ==
    /\ contract = "checking owner"
    /\ utxos = <<OutputNewWallet(0, 0, Alice,
                     AddOneValue(ValuesDefault, Lovelace, StartAmount)),
                 OutputNewWallet(0, 1, Alice, AddOneValue(ValuesDefault, Lovelace, 1)),
                 OutputNewValidator(0, 2, CheckingAddress,
                     AddOneValue(AddOneValue(ValuesDefault, Lovelace, StartAmount),
                         NativeToken(GenesisNft, CHECKING_ACCOUNT_NFT_ASSET_NAME), 1),
                     CheckingAccount(Alice, SpendTokenPolicy(GenesisNft, Alice)))>>
    /\ signer = Alice
    /\ txCount = 1
    /\ pending = [c \in Clients |-> Idle]
    /\ spent = [id \in {} |-> 0]
    /\ last = NoCall

\* first half of hit_endpoint: handle_endpoint and to_unbuilt_tx
HandleEndpoint(c) ==
    /\ pending[c].state = "idle"
    /\ txCount <= MaxTx
    /\ \E endpoint \in Endpoints :
        LET built == HitEndpointBuild(endpoint)
        IN  IF built.ok
            THEN /\ pending' = [pending EXCEPT ![c] =
                        [state |-> "built", endpoint |-> endpoint, tx |-> built.val]]
                 /\ UNCHANGED last
            ELSE /\ last' = [stage |-> "handle", endpoint |-> endpoint,
                             result |-> built, execs |-> <<>>]
                 /\ UNCHANGED pending
    /\ UNCHANGED <<contract, utxos, signer, txCount, spent>>

\* second half of hit_endpoint: the single issue call
Issue(c) ==
    /\ pending[c].state = "built"
    /\ LET out == issue(pending[c].tx)
       IN  /\ utxos' = out.utxos
           /\ txCount' = out.txCount
           /\ spent' = [id \in DOMAIN spent \cup out.consumed |->
                            Get(spent, id) + (IF id \in out.consumed THEN 1 ELSE 0)]
           /\ last' = [stage |-> "issue", endpoint |-> pending[c].endpoint,
                       result |-> HitEndpointFinish(out.result),
                       execs |-> out.execs]
    /\ pending' = [pending EXCEPT ![c] = Idle]
    /\ UNCHANGED <<contract, signer>>

\* the queries a caller may send
Lookups ==
    IF contract = "always"
    THEN [type : {"ListActiveContracts"}, count : {1, MaxTx}]
    ELSE {[type |-> "unit"]}

\* mutant of Lookup: the outputs a lookup returns are taken off the ledger
LookupConsuming(c) ==
    /\ pending[c].state = "idle"
    /\ txCount <= MaxTx
    /\ \E query \in Lookups :
        LET found == lookup(query)
        IN  /\ last' = [stage |-> "lookup", query |-> query, result |-> found]
            /\ utxos' = IF found.ok
                        THEN SelectSeq(utxos, LAMBDA o : o.id \notin IdsOf(found.val))
                        ELSE utxos
    /\ UNCHANGED <<contract, signer, txCount, pending, spent>>

\* SmartContract::lookup: Ok(Logic::lookup(lookup, &self.ledger_client).await?)
Lookup(c) ==
    /\ pending[c].state = "idle"
    /\ txCount <= MaxTx
    /\ \E query \in Lookups :
        last' = [stage |-> "lookup", query |-> query, result |-> lookup(query)]
    /\ UNCHANGED <<contract, utxos, signer, txCount, pending, spent>>

\* the test harness switches wallets between calls: ledger_client.signer = alice
SwitchSigner(a) ==
    /\ \A c \in Clients : pending[c].state = "idle"
    /\ a # signer
    /\ signer' = a
    /\ UNCHANGED <<contract, utxos, txCount, pending, spent, last>>

Next ==
    \/ \E c \in Clients : HandleEndpoint(c)
    \/ \E c \in Clients : Issue(c)
    \/ \E c \in Clients : Lookup(c)
    \/ \E a \in Wallets : SwitchSigner(a)

Spec == Init /\ [][Next]_vars

SpecAll == (Init \/ InitCA \/ InitOwner) /\ [][Next]_vars

\* ------------------------------------------------------------ properties
Addresses == Wallets \cup {EscrowAddress, AlwaysAddress, CheckingAddress, PullAddress}

\* the step in which client c's issue call runs
IssueStep(c) == pending[c].state = "built" /\ pending'[c].state = "idle"

\* the step in which client c's handle_endpoint built a transaction
BuildStep(c) == pending[c].state = "idle" /\ pending'[c].state = "built"

\* the step in which a call ended inside handle_endpoint / to_unbuilt_tx
HandleFailStep == last' # last /\ last'.stage = "handle"

OutputsAt(u, address) == SelectSeq(u, LAMBDA o : o.owner = address)

LedgerUnchanged ==
    \A a \in Addresses : OutputsAt(utxos', a) = OutputsAt(utxos, a)

\* C1: atomicity on script rejection. Whenever a script's execute rejects
\* during an issue call, hit_endpoint returns an error and
\* all_outputs_at_address is the same for every address as before the call.
C1_AtomicOnRejection ==
    [][\A c \in Clients :
         (IssueStep(c) /\ Rejected(last'.execs))
            => (~last'.result.ok /\ LedgerUnchanged)]_vars

C1_Witness ==
    /\ last.stage = "issue"
    /\ Rejected(last.execs)
    /\ ~last.result.ok
    /\ last.endpoint.output_id \in IdsOf(utxos)

\* C2: in every reachable state no two entries of the UTXO set have the
\* same OutputId.
C2_UniqueOutputIds ==
    \A i, j \in 1..Len(utxos) : i # j => utxos[i].id # utxos[j].id

C2_Witness ==
    /\ txCount > 2
    /\ Len(utxos) >= 3
    /\ last.stage = "issue" /\ ~last.result.ok

\* C3: an OutputId that a committed submission consumed is never the id of
\* an output in the UTXO set again.
C3_NoReuse == \A id \in DOMAIN spent : id \notin IdsOf(utxos)

C3_Witness == DOMAIN spent # {} /\ txCount > 2 /\ Len(utxos) >= 2

\* C4: no double spend under concurrency. Every OutputId is consumed by at
\* most one committed submission, and an issue call whose transaction
\* declares an output that a committed submission already consumed fails
\* and changes nothing.
C4_NoDoubleSpend ==
    /\ [](\A id \in DOMAIN spent : spent[id] <= 1)
    /\ [][\A c \in Clients :
            (IssueStep(c)
               /\ \E id \in IdsOf(DeclaredSpends(pending[c].tx)) : id \in DOMAIN spent)
              => (~last'.result.ok /\ utxos' = utxos /\ spent' = spent)]_vars

\* two calls read the same output, one committed, the other then failed
C4_Witness ==
    /\ last.stage = "issue"
    /\ ~last.result.ok
    /\ last.endpoint.type = "Claim"
    /\ last.endpoint.output_id \in DOMAIN spent
    /\ spent[last.endpoint.output_id] = 1

\* C5: a call that names an OutputId absent from the UTXO set ends with an
\* OutputNotFound error and leaves the UTXO set unchanged: handle_endpoint
\* never builds a claim of an absent id, and issue rejects a transaction
\* whose declared spend went absent after it was built.
C5_StaleReferenceRejected ==
    [][/\ \A c \in Clients :
            (BuildStep(c) /\ pending'[c].endpoint.type = "Claim")
               => pending'[c].endpoint.output_id \in IdsOf(utxos)
       /\ (HandleFailStep /\ last'.endpoint.type = "Claim"
              /\ last'.endpoint.output_id \notin IdsOf(utxos))
            => (~last'.result.ok /\ last'.result.cause = "OutputNotFound"
                  /\ utxos' = utxos)
       /\ \A c \in Clients :
            (IssueStep(c)
               /\ \E id \in IdsOf(DeclaredSpends(pending[c].tx)) : id \notin IdsOf(utxos))
              => (~last'.result.ok /\ last'.result.cause = "OutputNotFound"
                    /\ utxos' = utxos)]_vars

\* a second claim of an output that was already consumed
C5_Witness ==
    /\ last.stage = "handle"
    /\ last.endpoint.type = "Claim"
    /\ last.endpoint.output_id \in DOMAIN spent
    /\ ~last.result.ok /\ last.result.cause = "OutputNotFound"

\* the validator that guards a script address
ScriptOf(address) ==
    IF address = EscrowAddress THEN "escrow"
    ELSE IF address = PullAddress THEN "pull"
    ELSE IF address = CheckingAddress THEN "checking"
    ELSE "always"

\* the execution record of the spend of output o in the issue call of tx
GatedBy(o, tx, execs) ==
    \E k \in 1..Len(execs) :
        /\ execs[k].id = o.id
        /\ execs[k].script = ScriptOf(o.owner)
        /\ execs[k].datum = o.datum
        /\ \E j \in 1..Len(tx.script_inputs) :
              /\ tx.script_inputs[j].output.id = o.id
              /\ tx.script_inputs[j].redeemer = execs[k].redeemer
        /\ execs[k].ctx.purpose = <<"Spend", o.id>>
        /\ execs[k].ctx.signer = signer
        /\ execs[k].ctx.range = tx.valid_range
        /\ execs[k].result.ok

\* C6: script gating. In every committed submission each consumed output
\* owned by a script address had that script's execute run for that spend,
\* with the output's datum, the supplied redeemer and the context of that
\* spend, and it accepted; when any validator of a submission rejects, no
\* script output is consumed.
C6_ScriptGating ==
    [][\A c \in Clients :
         IssueStep(c)
           => /\ \A i \in 1..Len(utxos) :
                    (utxos[i].kind = "Validator" /\ utxos[i].id \notin IdsOf(utxos'))
                       => GatedBy(utxos[i], pending[c].tx, last'.execs)
              /\ Rejected(last'.execs)
                    => \A i \in 1..Len(utxos) :
                          utxos[i].kind = "Validator"
                             => utxos[i] \in {utxos'[k] : k \in 1..Len(utxos')}]_vars

\* a pull that redeems two script outputs was rejected by the pull validator
\* and both outputs are still there
C6_Witness ==
    /\ last.stage = "issue"
    /\ last.endpoint.type = "PullFromCheckingAccount"
    /\ Rejected(last.execs)
    /\ last.endpoint.allow_pull_output_id \in IdsOf(utxos)
    /\ last.endpoint.checking_account_output_id \in IdsOf(utxos)
    /\ last.endpoint.allow_pull_output_id # last.endpoint.checking_account_output_id

Assets(u) == UNION {DOMAIN u[i].values : i \in 1..Len(u)}

Total(u, asset) == Get(SumValues(u), asset)

\* C7: value conservation. For every committed submission and every asset,
\* the total over the UTXO set after the commit is the total before plus the
\* quantity the submission minted; a failed submission changes no total.
C7_ValueConservation ==
    [][/\ \A c \in Clients :
            IssueStep(c)
              => LET minted == MintedValues(pending[c].tx)
                 IN  \A x \in Assets(utxos) \cup Assets(utxos') \cup DOMAIN minted :
                        Total(utxos', x)
                           = Total(utxos, x)
                               + (IF last'.result.ok THEN Get(minted, x) ELSE 0)
       /\ HandleFailStep
            => \A x \in Assets(utxos) \cup Assets(utxos') :
                  Total(utxos', x) = Total(utxos, x)]_vars

\* an account was opened: its token was minted and is in the UTXO set, and
\* the rest of the spent wallet output came back as change
C7_Witness ==
    /\ last.stage = "issue" /\ last.result.ok
    /\ last.endpoint.type = "InitAccount"
    /\ last.endpoint.starting_lovelace > 0
    /\ \E x \in Assets(utxos) :
          /\ x # Lovelace
          /\ x[2].kind = "one_shot" /\ x[2].ref \in DOMAIN spent
          /\ Total(utxos, x) = 1
    /\ Total(utxos, Lovelace) = MIN_LOVELACE + StartAmount + 1 + StartAmount

BalanceIn(u, address, asset) == Get(SumValues(OutputsAt(u, address)), asset)

ScriptAddress == IF contract = "escrow" THEN EscrowAddress ELSE AlwaysAddress

\* everything the signer could still bring to the transaction: the value of
\* its declared spends, what it mints, and every other output of the signer
Available(tx) ==
    LET required == SeqMap(LAMBDA o : LookupSpend(o).val, DeclaredSpends(tx))
        rest == SelectSeq(utxos, LAMBDA o :
                    o.owner = signer /\ o.id \notin IdsOf(required))
    IN  AddValues(AddValues(SumValues(required), MintedValues(tx)), SumValues(rest))

AllPresent(tx) == IdsOf(DeclaredSpends(tx)) \subseteq IdsOf(utxos)

\* C8: when the value of the required outputs exceeds, for some asset, the
\* value of the required inputs plus every wallet output of the signer, the
\* call fails with a Balancing error and the ledger state is untouched.
C8_BalancingError ==
    [][\A c \in Clients :
         (IssueStep(c) /\ AllPresent(pending[c].tx)
            /\ \E x \in DOMAIN SumValues(pending[c].tx.unbuilt_outputs) :
                 SumValues(pending[c].tx.unbuilt_outputs)[x]
                    > Get(Available(pending[c].tx), x))
           => /\ ~last'.result.ok
              /\ last'.result.cause = "Balancing"
              /\ utxos' = utxos /\ txCount' = txCount /\ spent' = spent]_vars

C8_Witness ==
    /\ last.stage = "issue"
    /\ ~last.result.ok /\ last.result.cause = "Balancing"
    /\ last.endpoint.amount > BalanceIn(utxos, signer, Lovelace)
    /\ BalanceIn(utxos, signer, Lovelace) > 0

\* C9: a lock/escrow of amount A by a signer whose wallet holds S >= A of
\* the base asset commits; afterwards the script address holds A more and
\* the signer's wallet holds exactly S - A.
C9_LockMovesAmount ==
    [][\A c \in Clients :
         (IssueStep(c) /\ pending[c].endpoint.type \in {"Escrow", "Lock"}
            /\ pending[c].endpoint.amount <= BalanceIn(utxos, signer, Lovelace))
           => /\ last'.result.ok
              /\ BalanceIn(utxos', ScriptAddress, Lovelace)
                    = BalanceIn(utxos, ScriptAddress, Lovelace)
                        + pending[c].endpoint.amount
              /\ BalanceIn(utxos', signer, Lovelace)
                    = BalanceIn(utxos, signer, Lovelace)
                        - pending[c].endpoint.amount]_vars

\* a second lock that took everything the wallet had left after a first
\* lock of one unit
C9_Witness ==
    /\ last.stage = "issue" /\ last.result.ok
    /\ last.endpoint.type = "Escrow"
    /\ last.endpoint.amount = StartAmount
    /\ BalanceIn(utxos, EscrowAddress, Lovelace) = StartAmount + 1
    /\ BalanceIn(utxos, Me, Lovelace) = 0

\* C10: a Claim of an escrow output whose datum names receiver r, issued
\* while the signer is s, commits if and only if s = r; when s # r it fails
\* with ScriptExecution (FailedToExecute) and the output stays where it is.
C10_EscrowClaimAuthorization ==
    [][\A c \in Clients :
         (IssueStep(c) /\ contract = "escrow"
            /\ pending[c].endpoint.type = "Claim"
            /\ pending[c].endpoint.output_id \in IdsOf(utxos))
           => LET o == FindById(utxos, pending[c].endpoint.output_id).output
              IN  /\ last'.result.ok <=> signer = o.datum.receiver
                  /\ signer = o.datum.receiver => o.id \notin IdsOf(utxos')
                  /\ signer # o.datum.receiver
                       => /\ last'.result = Err("ScriptExecution", "FailedToExecute")
                          /\ OutputsAt(utxos', EscrowAddress)
                                = OutputsAt(utxos, EscrowAddress)
                          /\ o \in {utxos'[i] : i \in 1..Len(utxos')}]_vars

C10_Witness ==
    /\ contract = "escrow"
    /\ last.stage = "issue" /\ last.endpoint.type = "Claim"
    /\ last.result = Err("ScriptExecution", "FailedToExecute")
    /\ \E i \in 1..Len(utxos) :
          /\ utxos[i].id = last.endpoint.output_id
          /\ utxos[i].owner = EscrowAddress
          /\ utxos[i].datum.receiver # signer

\* C11: claim effect. A committed claim of a script output holding A units
\* of the base asset raises the signer's wallet balance by exactly A and
\* removes that output, and nothing else, from the script address; once a
\* lock has been claimed back by the signer that made it, so that the script
\* address is empty and nobody else holds anything, the wallet is back at
\* its starting amount.
C11_ClaimEffect ==
    /\ []((OutputsAt(utxos, ScriptAddress) = <<>> /\ OutputsAt(utxos, Alice) = <<>>)
            => BalanceIn(utxos, Me, Lovelace) = StartAmount + 1)
    /\ [][\A c \in Clients :
            (IssueStep(c) /\ pending[c].endpoint.type = "Claim" /\ last'.result.ok)
              => LET o == FindById(utxos, pending[c].endpoint.output_id).output
                 IN  /\ o.owner = ScriptAddress
                     /\ BalanceIn(utxos', signer, Lovelace)
                           = BalanceIn(utxos, signer, Lovelace) + Get(o.values, Lovelace)
                     /\ o.id \notin IdsOf(utxos')
                     /\ OutputsAt(utxos', ScriptAddress)
                           = SelectSeq(OutputsAt(utxos, ScriptAddress),
                                       LAMBDA x : x.id # o.id)]_vars

\* a lock of at least one unit was claimed back by the signer that made it
C11_Witness ==
    /\ last.stage = "issue" /\ last.result.ok
    /\ last.endpoint.type = "Claim"
    /\ signer = Me
    /\ OutputsAt(utxos, ScriptAddress) = <<>>
    /\ OutputsAt(utxos, Alice) = <<>>
    /\ \E i \in 1..Len(utxos) :
          /\ utxos[i].id = OutputIdNew(2, 0)
          /\ utxos[i].owner = Me
          /\ Get(utxos[i].values, Lovelace) >= 1
    /\ BalanceIn(utxos, Me, Lovelace) = StartAmount + 1

\* the minting policy of m accepted in the execution records of a submission
PolicyAccepted(m, execs) ==
    \E k \in 1..Len(execs) :
        /\ execs[k].script = m.policy
        /\ execs[k].ctx.purpose = <<"Mint", m.policy>>
        /\ execs[k].redeemer = m.redeemer
        /\ execs[k].result.ok

\* C12: mint plus script init in one submission. A committed InitAccount had
\* the policy of its mint run and accept, and the script output it creates
\* holds exactly 1 unit of the minted asset, the starting lovelace, and
\* nothing else.
C12_MintAndInit ==
    [][\A c \in Clients :
         (IssueStep(c) /\ pending[c].endpoint.type = "InitAccount"
            /\ last'.result.ok)
           => LET tx == pending[c].tx
                  m == tx.minting[1]
                  asset == NativeToken(m.policy, m.asset_name)
                  new == FindById(utxos', OutputIdNew(txCount, 0))
              IN  /\ Len(tx.minting) = 1 /\ m.amount = 1
                  /\ PolicyAccepted(m, last'.execs)
                  /\ new.found
                  /\ new.output.owner = CheckingAddress
                  /\ Get(new.output.values, asset) = 1
                  /\ Get(new.output.values, Lovelace)
                        = pending[c].endpoint.starting_lovelace
                  /\ \A x \in DOMAIN new.output.values :
                        x \in {asset, Lovelace}]_vars

\* an account was opened with a positive starting amount
C12_Witness ==
    /\ last.stage = "issue" /\ last.result.ok
    /\ last.endpoint.type = "InitAccount"
    /\ last.endpoint.starting_lovelace > 0
    /\ \E i \in 1..Len(utxos) :
          /\ utxos[i].owner = CheckingAddress
          /\ utxos[i].datum.owner = signer
          /\ Get(utxos[i].values, Lovelace) = last.endpoint.starting_lovelace
          /\ \E x \in DOMAIN utxos[i].values :
                x # Lovelace /\ x[2].kind = "one_shot"
                   /\ x[2].ref \in DOMAIN spent /\ utxos[i].values[x] = 1

\* ------------------------------------------ pull validator on its own
MaxTime == 2
Times == 0..MaxTime

OtherToken == SpendTokenPolicy(GenesisNft, Me)

\* the lower bounds a context can declare
LowerBounds == {NoBound} \cup [value : Times, inclusive : BOOLEAN]

\* the datum of the redeemed output: next_pull T, period P
PullDatum(T, P) ==
    AllowedPuller(Alice, Me, 1, T, P, SpendTokenPolicy(GenesisNft, Alice),
                  CheckingAddress, GenesisNft)

\* the datums the output of a context can carry for a redeemed datum d
NewDatums(d) ==
    {NoDatum}
      \cup {[d EXCEPT !.next_pull = n, !.period = p, !.spending_token = t] :
              n \in Times \cup {d.next_pull + d.period},
              p \in {d.period, d.period + 1},
              t \in {d.spending_token, OtherToken}}

\* a context with one input and one output at the script address, as the
\* validator's tests build it
PullContext(d, lower, new_datum, with_token) ==
    LET token == NativeToken(d.spending_token, "something")
        held == AddOneValue(ValuesDefault, token, 1)
    IN  [signer |-> Me,
         range |-> [lower |-> lower, upper |-> NoBound],
         inputs |-> <<OutputNewValidator(8, 0, PullAddress, held, d)>>,
         outputs |-> <<UnbuiltNewValidator(PullAddress,
                          IF with_token THEN held ELSE ValuesDefault, new_datum)>>,
         purpose |-> <<"Spend", OutputIdNew(8, 0)>>]

InitPull ==
    /\ contract = "checking"
    /\ utxos = <<>>
    /\ signer = Me
    /\ txCount = 1
    /\ pending = [c \in Clients |-> Idle]
    /\ spent = [id \in {} |-> 0]
    /\ \E T \in Times, P \in Periods, lower \in LowerBounds, with_token \in BOOLEAN :
         \E new_datum \in NewDatums(PullDatum(T, P)) :
            last = [stage |-> "input", datum |-> PullDatum(T, P),
                    ctx |-> PullContext(PullDatum(T, P), lower, new_datum, with_token)]

\* script.execute(input_datum, (), ctx)
ExecutePull ==
    /\ last.stage = "input"
    /\ last' = [stage |-> "execute", datum |-> last.datum, ctx |-> last.ctx,
                result |-> PullValidatorExecute(last.datum, "unit", last.ctx)]
    /\ UNCHANGED <<contract, utxos, signer, txCount, pending, spent>>

NextPull == ExecutePull

SpecPull == InitPull /\ [][NextPull]_vars

\* the output of the context renews the datum as the validator requires
RenewsDatum(datum, ctx) ==
    \E i \in 1..Len(ctx.outputs) : PullRenewed(datum, ctx.outputs[i])

\* C13: time gate. A redeem of an AllowedPuller output with next_pull T is
\* rejected when the lower bound of the valid range is before T, rejected
\* when it is T and exclusive, and accepted, the other conditions holding,
\* when it is T and inclusive or after T.
C13_TimeGate ==
    (last.stage = "execute" /\ last.ctx.range.lower # NoBound)
       => LET T == last.datum.next_pull
              lower == last.ctx.range.lower
          IN  /\ lower.value < T => ~last.result.ok
              /\ (lower.value = T /\ ~lower.inclusive) => ~last.result.ok
              /\ ((lower.value > T \/ (lower.value = T /\ lower.inclusive))
                    /\ RenewsDatum(last.datum, last.ctx))
                   => last.result.ok

\* a redeem at exactly next_pull with an exclusive bound was rejected though
\* the datum was renewed correctly
C13_Witness ==
    /\ last.stage = "execute"
    /\ last.ctx.range.lower # NoBound
    /\ last.ctx.range.lower.value = last.datum.next_pull
    /\ ~last.ctx.range.lower.inclusive
    /\ RenewsDatum(last.datum, last.ctx)
    /\ ~last.result.ok

\* the outputs of a context that carry an AllowedPuller datum
NewPullDatums(ctx) ==
    {ctx.outputs[i].datum : i \in {k \in 1..Len(ctx.outputs) :
        /\ ctx.outputs[k].kind = "Validator"
        /\ ctx.outputs[k].datum # NoDatum
        /\ ctx.outputs[k].datum.tag = "AllowedPuller"}}

\* C14: post-redeem datum rule. A redeem of an AllowedPuller output with
\* next_pull T and period P is accepted only if the transaction produces a
\* script output whose datum has next_pull = T + P; it is rejected when no
\* new datum is produced and when the new next_pull is not T + P.
C14_NewDatumRule ==
    last.stage = "execute"
       => LET due == last.datum.next_pull + last.datum.period
              new == NewPullDatums(last.ctx)
          IN  /\ last.result.ok => \E d \in new : d.next_pull = due
              /\ new = {} => ~last.result.ok
              /\ (\A d \in new : d.next_pull # due) => ~last.result.ok

\* a redeem whose time gate is open and whose new datum differs from the old
\* one only in a next_pull that is not next_pull + period was rejected
C14_Witness ==
    /\ last.stage = "execute"
    /\ PullTimeGate(last.datum, last.ctx)
    /\ ~last.result.ok
    /\ \E d \in NewPullDatums(last.ctx) :
          /\ d.next_pull # last.datum.next_pull + last.datum.period
          /\ d.period = last.datum.period
          /\ d.spending_token = last.datum.spending_token
    /\ PullHoldsToken(last.datum, last.ctx.outputs[1].values)

\* ------------------------------------------------ Values on their own
ValueAssets ==
    {Lovelace,
     NativeToken(GenesisNft, CHECKING_ACCOUNT_NFT_ASSET_NAME),
     NativeToken(SpendTokenPolicy(GenesisNft, Alice), SPEND_TOKEN_ASSET_NAME)}

\* every Values over the assets, explicit zero entries included
ValueSet == UNION {[S -> Amounts] : S \in SUBSET ValueAssets}

InitValues ==
    /\ contract = "checking"
    /\ utxos = <<>>
    /\ signer = Me
    /\ txCount = 1
    /\ pending = [c \in Clients |-> Idle]
    /\ spent = [id \in {} |-> 0]
    /\ \E a \in ValueSet, b \in ValueSet : last = [stage |-> "input", a |-> a, b |-> b]

\* a.try_subtract(&b)
TrySubtractValues ==
    /\ last.stage = "input"
    /\ last' = [stage |-> "try_subtract", a |-> last.a, b |-> last.b,
                result |-> TrySubtract(last.a, last.b)]
    /\ UNCHANGED <<contract, utxos, signer, txCount, pending, spent>>

\* the Values a successful try_subtract stands for: None is no value at all
Remaining(result) ==
    IF result.val.some THEN result.val.values ELSE ValuesDefault

\* b is added back to the result of a successful try_subtract
AddBackValues ==
    /\ last.stage = "try_subtract"
    /\ last.result.ok
    /\ last' = [stage |-> "add", a |-> last.a, b |-> last.b,
                sum |-> AddValues(Remaining(last.result), last.b)]
    /\ UNCHANGED <<contract, utxos, signer, txCount, pending, spent>>

\* a == b, and the balance check of a against b
CompareValues ==
    /\ last.stage = "input"
    /\ last' = [stage |-> "compare", a |-> last.a, b |-> last.b,
                eq |-> ValuesEq(last.a, last.b),
                covers |-> Covers(last.a, last.b)]
    /\ UNCHANGED <<contract, utxos, signer, txCount, pending, spent>>

NextValues ==
    \/ TrySubtractValues
    \/ AddBackValues
    \/ CompareValues

SpecValues == InitValues /\ [][NextValues]_vars

\* C15: subtraction never goes negative and never wraps. a.try_subtract(b)
\* fails with an Arithmetic error whenever some asset has more in b than in
\* a, an asset missing from a counting as 0; otherwise every quantity of the
\* result is a's quantity minus b's.
C15_SubtractNeverNegative ==
    last.stage = "try_subtract"
       => IF \E x \in DOMAIN last.b : last.b[x] > Get(last.a, x)
          THEN ~last.result.ok /\ last.result.kind = "Arithmetic"
          ELSE /\ last.result.ok
               /\ \A x \in ValueAssets :
                     /\ Get(Remaining(last.result), x)
                           = Get(last.a, x) - Get(last.b, x)
                     /\ Get(Remaining(last.result), x) >= 0

\* the subtraction failed over an asset that a does not hold at all, while
\* a covers b on the assets it holds
C15_Witness ==
    /\ last.stage = "try_subtract"
    /\ ~last.result.ok
    /\ \E x \in DOMAIN last.b : x \notin DOMAIN last.a /\ last.b[x] > 0
    /\ \A x \in DOMAIN last.b \cap DOMAIN last.a : last.b[x] <= last.a[x]
    /\ DOMAIN last.a # {}

\* C16: subtract/add round trip. Whenever a.try_subtract(b) succeeds, adding
\* b back to the result gives a's quantity on every asset present in a.
C16_SubtractAddRoundTrip ==
    last.stage = "add" => \A x \in DOMAIN last.a : Get(last.sum, x) = last.a[x]

\* part of an asset was subtracted and added back, another asset of a was
\* left alone
C16_Witness ==
    /\ last.stage = "add"
    /\ \E x \in DOMAIN last.a \cap DOMAIN last.b :
          last.b[x] > 0 /\ last.a[x] > last.b[x]
    /\ \E x \in DOMAIN last.a : x \notin DOMAIN last.b /\ last.a[x] > 0
    /\ \A x \in DOMAIN last.a : Get(last.sum, x) = last.a[x]

\* C17: equality is by normalized mapping. Two Values are equal exactly when
\* they agree on every asset once zero-quantity entries are dropped, so an
\* explicit zero entry makes no difference to equality, and the balance
\* check treats such an entry as absent.
C17_EqualityNormalized ==
    last.stage = "compare"
       => /\ last.eq <=> \A x \in ValueAssets : Get(last.a, x) = Get(last.b, x)
          /\ \A x \in ValueAssets \ DOMAIN last.a :
                ValuesEq(AddOneValue(last.a, x, 0), last.a)
          /\ last.covers <=> Covers(Normalize(last.a), Normalize(last.b))

\* two Values that differ only in an explicit zero entry compared equal
C17_Witness ==
    /\ last.stage = "compare"
    /\ last.eq
    /\ last.a # last.b
    /\ \E x \in DOMAIN last.a : x \notin DOMAIN last.b /\ last.a[x] = 0
    /\ \E x \in DOMAIN last.a : last.a[x] > 0
    /\ last.covers

\* the endpoints that replace the state held at a script address
Replacing == {"FundAccount", "PullFromCheckingAccount"}

\* the script outputs an endpoint asks to replace
ReplacedIds(endpoint) ==
    IF endpoint.type = "FundAccount" THEN {endpoint.output_id}
    ELSE {endpoint.allow_pull_output_id, endpoint.checking_account_output_id}

\* C18: outputs are never mutated in place. Across every step an OutputId
\* present before and after maps to the same owner, value and datum; a
\* committed fund or pull removes each script output it redeems and puts
\* its replacement under an OutputId that was never used before.
C18_NeverMutatedInPlace ==
    [][/\ \A i \in 1..Len(utxos), j \in 1..Len(utxos') :
            utxos[i].id = utxos'[j].id => utxos[i] = utxos'[j]
       /\ \A c \in Clients :
            (IssueStep(c) /\ pending[c].endpoint.type \in Replacing
               /\ last'.result.ok)
              => LET tx == pending[c].tx
                 IN  /\ ReplacedIds(pending[c].endpoint) \subseteq IdsOf(utxos)
                     /\ \A id \in ReplacedIds(pending[c].endpoint) :
                          id \notin IdsOf(utxos')
                     /\ \A k \in 1..Len(tx.unbuilt_outputs) :
                          \E j \in 1..Len(utxos') :
                             /\ utxos'[j].id \notin IdsOf(utxos) \cup DOMAIN spent
                             /\ utxos'[j].owner = tx.unbuilt_outputs[k].owner
                             /\ utxos'[j].values = tx.unbuilt_outputs[k].values
                             /\ utxos'[j].datum = tx.unbuilt_outputs[k].datum]_vars

\* an account was funded: the old account output is spent and the account
\* now sits, with the larger value, under a new OutputId
C18_Witness ==
    /\ last.stage = "issue" /\ last.result.ok
    /\ last.endpoint.type = "FundAccount"
    /\ last.endpoint.fund_amount > 0
    /\ last.endpoint.output_id \in DOMAIN spent
    /\ \E j \in 1..Len(utxos) :
          /\ utxos[j].owner = CheckingAddress
          /\ utxos[j].id # last.endpoint.output_id
          /\ Get(utxos[j].values, Lovelace) = StartAmount + last.endpoint.fund_amount

\* the outputs of u whose OutputId is not among the ids
Fresh(u, ids) == SelectSeq(u, LAMBDA o : o.id \notin ids)

\* C19: on a successful issue every declared spend leaves the UTXO set and
\* every declared output enters it exactly once, the k-th declared output
\* under the OutputId (transaction hash, k - 1); all outputs the submission
\* inserts share that hash and differ in index.
C19_CommitInsertsInOrder ==
    [][\A c \in Clients :
         (IssueStep(c) /\ last'.result.ok)
           => LET tx == pending[c].tx
                  n == Len(tx.unbuilt_outputs)
                  new == Fresh(utxos', IdsOf(utxos))
              IN  /\ \A id \in IdsOf(DeclaredSpends(tx)) :
                        id \in IdsOf(utxos) /\ id \notin IdsOf(utxos')
                  /\ \A k \in 1..n :
                        LET at == {j \in 1..Len(utxos') :
                                      utxos'[j].id = OutputIdNew(txCount, k - 1)}
                        IN  /\ Cardinality(at) = 1
                            /\ \A j \in at :
                                  /\ utxos'[j].owner = tx.unbuilt_outputs[k].owner
                                  /\ utxos'[j].values = tx.unbuilt_outputs[k].values
                                  /\ utxos'[j].datum = tx.unbuilt_outputs[k].datum
                  /\ Len(new) \in {n, n + 1}
                  /\ \A j \in 1..Len(new) : new[j].id = OutputIdNew(txCount, j - 1)
                  /\ last'.result.val = txCount]_vars

\* a pull committed: its two declared script outputs and the change sit
\* under indices 0, 1 and 2 of one hash
C19_Witness ==
    /\ last.stage = "issue" /\ last.result.ok
    /\ last.endpoint.type = "PullFromCheckingAccount"
    /\ last.endpoint.amount > 0
    /\ LET h == last.result.val
       IN  /\ FindById(utxos, OutputIdNew(h, 0)).found
           /\ FindById(utxos, OutputIdNew(h, 0)).output.owner = PullAddress
           /\ FindById(utxos, OutputIdNew(h, 1)).found
           /\ FindById(utxos, OutputIdNew(h, 1)).output.owner = CheckingAddress
           /\ FindById(utxos, OutputIdNew(h, 2)).found
           /\ FindById(utxos, OutputIdNew(h, 2)).output.owner = signer
    /\ last.endpoint.allow_pull_output_id \notin IdsOf(utxos)
    /\ last.endpoint.checking_account_output_id \notin IdsOf(utxos)

ErrorKinds == {"LedgerClient", "ScriptExecution"}

\* this step applied the whole submission of client c: every declared spend
\* is gone and every declared output is there
WholeSubmission(c) ==
    LET tx == pending[c].tx
    IN  /\ \A id \in IdsOf(DeclaredSpends(tx)) : id \notin IdsOf(utxos')
        /\ \A k \in 1..Len(tx.unbuilt_outputs) :
              FindById(utxos', OutputIdNew(txCount, k - 1)).found
        /\ \A id \in IdsOf(utxos') \ IdsOf(utxos) : id[1] = txCount

LookupStep == last' # last /\ last'.stage = "lookup"

\* C21: handle_endpoint and lookup leave the ledger unchanged. A step of
\* Logic::handle_endpoint (whether it built a transaction or failed) or of
\* Logic::lookup changes neither the UTXO set nor the signer, and every change
\* of the UTXO set happens in the step of an issue call, which adds at most
\* one transaction.
C21_HandleAndLookupFrame ==
    [][/\ ((\E c \in Clients : BuildStep(c)) \/ HandleFailStep \/ LookupStep)
            => /\ utxos' = utxos /\ signer' = signer
               /\ txCount' = txCount /\ spent' = spent
       /\ (utxos' # utxos \/ txCount' # txCount \/ spent' # spent)
            => /\ \E c \in Clients : IssueStep(c)
               /\ txCount' <= txCount + 1
               /\ signer' = signer]_vars

\* a lookup has returned outputs that are still on the ledger while another
\* client's handle_endpoint has built its transaction from the same ledger
C21_Witness ==
    /\ last.stage = "lookup"
    /\ last.result.ok
    /\ last.result.val # <<>>
    /\ IdsOf(last.result.val) \subseteq IdsOf(utxos)
    /\ \E c \in Clients : pending[c].state = "built"

MaxActions == 4

\* the actions the checking account's endpoints declare against the test
\* ledger (init_account and pull_from_account), and an unbounded valid range
ActionPool ==
    {init_account(1).val[i] : i \in 1..Len(init_account(1).val)}
        \cup LET pull == pull_from_account(OutputIdNew(0, 3), OutputIdNew(0, 2), 1).val
             IN  {pull[i] : i \in 1..Len(pull)}
        \cup {ValidRange(NoBound, NoBound)}

\* the sequences of at most n different actions
ActionSeqs(n) ==
    {s \in UNION {[1..k -> ActionPool] : k \in 0..n} :
        \A i, j \in 1..Len(s) : s[i] = s[j] => i = j}

InitBuild ==
    /\ contract = "checking"
    /\ utxos = CheckingLedger(1)
    /\ signer = Me
    /\ txCount = 1
    /\ pending = [c \in Clients |-> Idle]
    /\ spent = [id \in {} |-> 0]
    /\ \E actions \in ActionSeqs(MaxActions) :
        last = [stage |-> "input", actions |-> actions]

\* tx_actions.to_unbuilt_tx()
Build ==
    /\ last.stage = "input"
    /\ last' = [stage |-> "built", actions |-> last.actions,
                result |-> to_unbuilt_tx(last.actions)]
    /\ UNCHANGED <<contract, utxos, signer, txCount, pending, spent>>

\* ledger_client.issue(tx) of the built transaction
IssueBuilt ==
    /\ last.stage = "built"
    /\ last.result.ok
    /\ LET out == issue(last.result.val)
       IN  /\ utxos' = out.utxos
           /\ txCount' = out.txCount
           /\ spent' = [id \in DOMAIN spent \cup out.consumed |->
                            Get(spent, id) + (IF id \in out.consumed THEN 1 ELSE 0)]
           /\ last' = [stage |-> "issued", actions |-> last.actions,
                       result |-> HitEndpointFinish(out.result)]
    /\ UNCHANGED <<contract, signer, pending>>

NextBuild == Build \/ IssueBuilt

SpecBuild == InitBuild /\ [][NextBuild]_vars

\* the positions of the actions of the given types
ActionsOfType(actions, types) == {i \in 1..Len(actions) : actions[i].type \in types}

\* C23: action partition. The built transaction has as required inputs
\* exactly the outputs of all SpecificInput and RedeemScriptOutput actions
\* (a redeemed output with its redeemer and script), as required new outputs
\* exactly one output per InitScriptOutput action with the same address, value
\* and datum, and as required mints exactly the Mint actions.
C23_ActionPartition ==
    last.stage = "built"
       => /\ last.result.ok
          /\ LET tx == last.result.val
                 acts == last.actions
                 specific == ActionsOfType(acts, {"SpecificInput"})
                 redeems == ActionsOfType(acts, {"RedeemScriptOutput"})
                 inits == ActionsOfType(acts, {"InitScriptOutput"})
                 mints == ActionsOfType(acts, {"Mint"})
             IN  /\ Len(tx.specific_wallet_inputs) = Cardinality(specific)
                 /\ {tx.specific_wallet_inputs[i] : i \in 1..Len(tx.specific_wallet_inputs)}
                        = {acts[i].output : i \in specific}
                 /\ Len(tx.script_inputs) = Cardinality(redeems)
                 /\ {<<tx.script_inputs[i].output, tx.script_inputs[i].redeemer,
                       tx.script_inputs[i].script>> : i \in 1..Len(tx.script_inputs)}
                        = {<<acts[i].output, acts[i].redeemer, acts[i].script>> :
                              i \in redeems}
                 /\ {o.id : o \in {DeclaredSpends(tx)[i] : i \in 1..Len(DeclaredSpends(tx))}}
                        = {acts[i].output.id : i \in specific \cup redeems}
                 /\ Len(tx.unbuilt_outputs) = Cardinality(inits)
                 /\ {<<tx.unbuilt_outputs[i].kind, tx.unbuilt_outputs[i].owner,
                       tx.unbuilt_outputs[i].values, tx.unbuilt_outputs[i].datum>> :
                          i \in 1..Len(tx.unbuilt_outputs)}
                        = {<<"Validator", acts[i].address, acts[i].values, acts[i].datum>> :
                              i \in inits}
                 /\ Len(tx.minting) = Cardinality(mints)
                 /\ {tx.minting[i] : i \in 1..Len(tx.minting)} = {acts[i] : i \in mints}

\* a transaction was built from a pinned input, a redeemed script output, a
\* new script output and a mint
C23_Witness ==
    /\ last.stage = "built"
    /\ last.result.ok
    /\ Len(last.result.val.specific_wallet_inputs) = 1
    /\ Len(last.result.val.script_inputs) = 1
    /\ Len(last.result.val.unbuilt_outputs) = 1
    /\ Len(last.result.val.minting) = 1

\* C24: valid-range tie-break. When ValidRange is declared more than once the
\* built transaction's range is the one declared last; when it is never
\* declared the range is unbounded on both sides.
C24_LastValidRangeWins ==
    last.stage = "built"
       => LET acts == last.actions
              ranges == ActionsOfType(acts, {"ValidRange"})
              range == last.result.val.valid_range
          IN  /\ ranges = {}
                    => (range.lower = NoBound /\ range.upper = NoBound)
              /\ \A i \in ranges :
                    (\A j \in ranges : j <= i)
                       => (range.lower = acts[i].lower /\ range.upper = acts[i].upper)

\* two ranges were declared, an unbounded one first and a bounded one last,
\* and the built transaction carries the bounded one
C24_Witness ==
    /\ last.stage = "built"
    /\ \E i, j \in ActionsOfType(last.actions, {"ValidRange"}) :
          /\ i < j
          /\ last.actions[i].lower = NoBound
          /\ last.actions[j].lower # NoBound
    /\ last.result.val.valid_range.lower # NoBound

\* the reorderings of an action sequence
Reorderings(s) ==
    {[i \in 1..Len(s) |-> s[f[i]]] :
        f \in {g \in [1..Len(s) -> 1..Len(s)] :
                  \A i, j \in 1..Len(s) : g[i] = g[j] => i = j}}

\* C25: action order does not affect balancing. When a built transaction is
\* issued, every reordering of its action sequence that keeps the same
\* ValidRange last, issued against the same ledger state, fails if it failed
\* and commits if it committed, and after the commit the balance of every
\* address in every asset is the same.
C25_OrderIndependentBalancing ==
    [][(last.stage = "built" /\ last'.stage = "issued")
          => \A p \in Reorderings(last.actions) :
                ValidRangeOf(p) = ValidRangeOf(last.actions)
                   => LET other == issue(to_unbuilt_tx(p).val)
                      IN  /\ other.result.ok <=> last'.result.ok
                          /\ last'.result.ok
                                => \A a \in Addresses :
                                     \A x \in Assets(utxos') \cup Assets(other.utxos) :
                                        BalanceIn(other.utxos, a, x)
                                            = BalanceIn(utxos', a, x)]_vars

\* a pull was committed whose actions (two redeemed script outputs, a new
\* script output and a valid range) have reorderings
C25_Witness ==
    /\ last.stage = "issued"
    /\ last.result.ok
    /\ Cardinality(ActionsOfType(last.actions, {"RedeemScriptOutput"})) = 2
    /\ ActionsOfType(last.actions, {"InitScriptOutput"}) # {}
    /\ ActionsOfType(last.actions, {"ValidRange"}) # {}
    /\ \E p \in Reorderings(last.actions) : p # last.actions

\* ----------------------------------- select_any_above_min as a pure function
MaxWallet == 3

\* what an output of the signer's wallet can hold: no lovelace at all (a
\* native token only), or a quantity of lovelace around the minimum
WalletHoldings ==
    {AddOneValue(ValuesDefault, NativeToken(GenesisNft, SPEND_TOKEN_ASSET_NAME), 1)}
        \cup {AddOneValue(ValuesDefault, Lovelace, q) :
                 q \in {1, MIN_LOVELACE, MIN_LOVELACE + 1, MIN_LOVELACE + 2}}

\* a ledger with an output of another wallet followed by the signer's outputs
WalletLedger(holdings) ==
    <<OutputNewWallet(0, 0, Alice,
          AddOneValue(ValuesDefault, Lovelace, MIN_LOVELACE + StartAmount))>>
        \o [i \in 1..Len(holdings) |-> OutputNewWallet(0, i, Me, holdings[i])]

InitSelect ==
    /\ contract = "checking"
    /\ \E holdings \in UNION {[1..k -> WalletHoldings] : k \in 0..MaxWallet} :
          utxos = WalletLedger(holdings)
    /\ signer = Me
    /\ txCount = 1
    /\ pending = [c \in Clients |-> Idle]
    /\ spent = [id \in {} |-> 0]
    /\ last = [stage |-> "input"]

\* select_any_above_min(ledger_client).await
SelectAnyAboveMin ==
    /\ last.stage = "input"
    /\ last' = [stage |-> "selected", result |-> select_any_above_min]
    /\ UNCHANGED <<contract, utxos, signer, txCount, pending, spent>>

NextSelect == SelectAnyAboveMin

SpecSelect == InitSelect /\ [][NextSelect]_vars

\* the positions, in the order returned for the signer's address, of the
\* outputs holding more than the minimum of lovelace
Qualifying ==
    LET mine == all_outputs_at_address(signer)
    IN  {i \in 1..Len(mine) : Get(mine[i].values, Lovelace) > MIN_LOVELACE}

\* C26, first-output reading: the selection returns the first output, in the order
\* returned for the signer's address, that holds more than MIN_LOVELACE.
C26_SelectsFirstAboveMin ==
    (last.stage = "selected" /\ Qualifying # {})
       => /\ last.result.ok
          /\ \E i \in Qualifying :
                /\ \A j \in Qualifying : i <= j
                /\ last.result.val = all_outputs_at_address(signer)[i]

\* C26, as the code selects: wallet input selection returns the last output, in the order
\* returned for the signer's address, that holds strictly more than
\* MIN_LOVELACE; an output holding exactly MIN_LOVELACE, less, or no lovelace
\* is never selected, nor is an output of another address; and when no output
\* qualifies the call fails with InputNotFound.
C26_SelectsLastAboveMin ==
    last.stage = "selected"
       => LET mine == all_outputs_at_address(signer)
          IN  /\ Qualifying = {} <=> ~last.result.ok
              /\ Qualifying = {} => last.result = Err("Endpoint", "InputNotFound")
              /\ last.result.ok
                    => /\ last.result.val.owner = signer
                       /\ Lovelace \in DOMAIN last.result.val.values
                       /\ last.result.val.values[Lovelace] > MIN_LOVELACE
                       /\ \E i \in Qualifying :
                             /\ \A j \in Qualifying : j <= i
                             /\ last.result.val = mine[i]

\* the wallet holds an output with exactly the minimum and two different
\* outputs above it, and the later of the two was selected
C26_Witness ==
    /\ last.stage = "selected"
    /\ last.result.ok
    /\ Cardinality(Qualifying) = 2
    /\ \E i \in 1..Len(all_outputs_at_address(signer)) :
          Get(all_outputs_at_address(signer)[i].values, Lovelace) = MIN_LOVELACE
    /\ \E i \in Qualifying : \E j \in Qualifying :
          i < j /\ last.result.val = all_outputs_at_address(signer)[j]

\* -------------------------------------------------- PlutusData (term trees)
U64Max == 2^IntBits - 1

\* `value as i64` of a u64: the same bits read as a signed integer
AsI64(value) == IF value > I64Max THEN value - 2^IntBits ELSE value

\* todo!(): the conversion panics, no term is produced
Todo == [pd |-> "Panic", message |-> "not yet implemented"]

IsPanic(term) == term.pd = "Panic"

AnyPanic(items) == \E i \in 1..Len(items) : IsPanic(items[i])

\* the panic met first when the items are computed in order
FirstPanic(items) ==
    items[CHOOSE i \in 1..Len(items) :
             IsPanic(items[i]) /\ \A j \in 1..(i - 1) : ~IsPanic(items[j])]

\* PlutusData::Constr(Constr { constr, fields }); a panic in the computation
\* of a field ends the construction
Constr(constr, fields) ==
    IF AnyPanic(fields) THEN FirstPanic(fields)
    ELSE [pd |-> "Constr", constr |-> constr, fields |-> fields]

\* PlutusData::Array(items)
Array(items) ==
    IF AnyPanic(items) THEN FirstPanic(items)
    ELSE [pd |-> "Array", items |-> items]

\* PlutusData::Map(BTreeMap): a function from key terms to value terms
PlutusMap(map) == [pd |-> "Map", map |-> map]

\* PlutusData::BoundedBytes(bytes)
BoundedBytes(bytes) == [pd |-> "BoundedBytes", bytes |-> bytes]

\* impl From<i64> for BigInt: sign and magnitude
BigIntFromI64(num) == [neg |-> num < 0, val |-> IF num < 0 THEN -num ELSE num]

\* impl From<i64> for PlutusData
FromI64(num) == [pd |-> "BigInt", int |-> BigIntFromI64(num)]

\* impl From<u64> for PlutusData: PlutusData::BigInt((value as i64).into())
FromU64(value) == [pd |-> "BigInt", int |-> BigIntFromI64(AsI64(value))]

\* -value on an i64: negating the smallest value leaves the range, which
\* panics in a build with overflow checks and wraps to itself without them
NegI64(value, overflow_checks) ==
    IF value # I64Min THEN Ok(-value)
    ELSE IF overflow_checks THEN Err("Panic", "attempt to negate with overflow")
    ELSE Ok(WrapI64(-value))

\* mutant of From<BigInt> for i64: the sign flag is ignored
I64FromBigIntUnsigned(big_int, overflow_checks) ==
    IF "neg" \notin DOMAIN big_int THEN Err("Panic", "not yet implemented")
    ELSE Ok(AsI64(big_int.val))

\* impl From<BigInt> for i64: `val as i64`, negated when neg is set; the
\* BigUInt and BigNInt variants are todo!()
I64FromBigInt(big_int, overflow_checks) ==
    IF "neg" \notin DOMAIN big_int THEN Err("Panic", "not yet implemented")
    ELSE LET value == AsI64(big_int.val)
         IN  IF big_int.neg THEN NegI64(value, overflow_checks) ELSE Ok(value)

\* impl TryFrom<PlutusData> for i64
I64TryFromPlutusData(data, overflow_checks) ==
    IF data.pd = "BigInt" THEN I64FromBigInt(data.int, overflow_checks)
    ELSE Err("Script", "DatumDeserialization")

\* Translate constructor index to cbor tag.
constr_index(index) == index

wrap_with_constr(index, data) == Constr(constr_index(index), <<data>>)

wrap_multiple_with_constr(index, data) == Constr(constr_index(index), data)

empty_constr(index) == Constr(constr_index(index), <<>>)

\* impl From<PubKeyHash> for PlutusData
FromPubKeyHash(value) == BoundedBytes(value)

\* impl<T> From<Option<T>> for PlutusData, the inner value already converted
FromOption(value) ==
    IF value = [none |-> TRUE] THEN Constr(1, <<>>) ELSE Constr(0, <<value>>)

\* ----------------------------------------------- valid range as a term tree
no_time_bound ==
    Constr(0, <<Constr(0, <<Constr(0, <<>>), Constr(1, <<>>)>>),
                Constr(0, <<Constr(2, <<>>), Constr(1, <<>>)>>)>>)

\* mutant of lower_bound: the closure flag is always True
lower_bound_closed(bound, is_inclusive) ==
    Constr(0, <<Constr(0, <<Constr(1, <<FromI64(bound)>>), Constr(1, <<>>)>>),
                Constr(0, <<Constr(2, <<>>), Constr(1, <<>>)>>)>>)

lower_bound(bound, is_inclusive) ==
    LET closure == IF is_inclusive THEN Constr(1, <<>>) ELSE Constr(0, <<>>)
    IN  Constr(0, <<Constr(0, <<Constr(1, <<FromI64(bound)>>), closure>>),
                    Constr(0, <<Constr(2, <<>>), Constr(1, <<>>)>>)>>)

\* mutant of the range conversion: an upper bound is dropped silently
FromValidRangeTruncating(value) ==
    IF value.lower = NoBound THEN no_time_bound
    ELSE lower_bound(value.lower.value, value.lower.inclusive)

\* impl From<ValidRange> for PlutusData
FromValidRange(value) ==
    IF value.lower = NoBound /\ value.upper = NoBound THEN no_time_bound
    ELSE IF value.lower # NoBound /\ value.upper = NoBound
    THEN lower_bound(value.lower.value, value.lower.inclusive)
    ELSE Todo

\* --------------------------------------------------- address as a term tree
ShelleyKey(hash) == [part |-> "Key", hash |-> hash]

ShelleyScript(hash) == [part |-> "Script", hash |-> hash]

ShelleyPointer(slot, tx_idx, cert_idx) ==
    [part |-> "Pointer", slot |-> slot, tx_idx |-> tx_idx, cert_idx |-> cert_idx]

ShelleyNull == [part |-> "Null"]

ShelleyAddress(payment, delegation) ==
    [kind |-> "Shelley", payment |-> payment, delegation |-> delegation]

\* an address of another era (Byron) or a bare stake address
OtherAddress(kind) == [kind |-> kind]

\* mutant of the address conversion: the stake part is not encoded
FromAddressPaymentOnly(value) ==
    IF value.kind # "Shelley" THEN Todo
    ELSE LET payment_part_plutus_data ==
                 IF value.payment.part = "Key"
                 THEN wrap_with_constr(0, BoundedBytes(value.payment.hash))
                 ELSE wrap_with_constr(1, BoundedBytes(value.payment.hash))
         IN  wrap_multiple_with_constr(0, <<payment_part_plutus_data, empty_constr(1)>>)

\* impl From<Address> for PlutusData
FromAddress(value) ==
    IF value.kind # "Shelley" THEN Todo
    ELSE LET payment_part == value.payment
             stake_part == value.delegation
             payment_part_plutus_data ==
                 IF payment_part.part = "Key"
                 THEN wrap_with_constr(0, BoundedBytes(payment_part.hash))
                 ELSE wrap_with_constr(1, BoundedBytes(payment_part.hash))
             stake_part_plutus_data ==
                 IF stake_part.part = "Key"
                 THEN wrap_with_constr(0, wrap_with_constr(0, BoundedBytes(stake_part.hash)))
                 ELSE IF stake_part.part = "Script"
                 THEN wrap_with_constr(0, wrap_with_constr(1, BoundedBytes(stake_part.hash)))
                 ELSE IF stake_part.part = "Pointer"
                 THEN wrap_with_constr(0,
                          wrap_multiple_with_constr(1,
                              <<FromU64(stake_part.slot), FromU64(stake_part.tx_idx),
                                FromU64(stake_part.cert_idx)>>))
                 ELSE empty_constr(1)
         IN  wrap_multiple_with_constr(0,
                 <<payment_part_plutus_data, stake_part_plutus_data>>)

\* --------------------------------------------- context parts as term trees
\* .unwrap() on an Err: the conversion panics
UnwrapPanic == [pd |-> "Panic", message |-> "called Result::unwrap() on an Err value"]

\* the UTF-8 bytes of the characters asset names are written with
Utf8 == ("A" :> 65) @@ ("N" :> 78) @@ ("F" :> 70) @@ ("T" :> 84) @@ (" " :> 32)

\* str::as_bytes
AsBytes(chars) == [i \in 1..Len(chars) |-> Utf8[chars[i]]]

\* the orders in which an iterator over an unordered collection can yield its
\* keys: every arrangement of them
IterationOrders(keys) ==
    {order \in [1..Cardinality(keys) -> keys] :
        \A i \in 1..Cardinality(keys) : \A j \in 1..Cardinality(keys) :
            i # j => order[i] # order[j]}

\* BTreeMap::from_iter over (key, value) pairs in the order the iterator
\* yields them: of two entries with the same key the one met later is kept
CollectMap(pairs) ==
    PlutusMap([k \in {pairs[i][1] : i \in 1..Len(pairs)} |->
                  pairs[CHOOSE i \in 1..Len(pairs) :
                           /\ pairs[i][1] = k
                           /\ \A j \in (i + 1)..Len(pairs) : pairs[j][1] # k][2]])

\* impl From<CtxValue> for PlutusData: policy id (hex decoded) to asset name
\* (bytes) to amount (as i64). value.inner is the mapping and value.iter the
\* order in which value.inner.iter() visits its policy ids
FromCtxValue(value) ==
    LET AssetsOf(a) ==
            PlutusMap([k \in {BoundedBytes(AsBytes(an)) : an \in DOMAIN a} |->
                          FromI64(AsI64(a[CHOOSE an \in DOMAIN a :
                                             BoundedBytes(AsBytes(an)) = k]))])
        Entry(p) == <<BoundedBytes(HexDecode(p).val), AssetsOf(value.inner[p])>>
    IN  IF \E i \in 1..Len(value.iter) : ~HexDecode(value.iter[i]).ok
        THEN UnwrapPanic
        ELSE CollectMap(SeqMap(Entry, value.iter))

CtxNoDatum == [datum |-> "NoDatum"]

CtxDatumHash(hash) == [datum |-> "DatumHash", hash |-> hash]

CtxInlineDatum(data) == [datum |-> "InlineDatum", data |-> data]

\* impl From<CtxDatum> for PlutusData
FromCtxDatum(value) ==
    IF value.datum = "NoDatum" THEN Constr(0, <<>>)
    ELSE IF value.datum = "DatumHash" THEN Constr(1, <<BoundedBytes(value.hash)>>)
    ELSE Constr(2, <<value.data>>)

\* impl From<CtxOutputReference> for PlutusData
FromCtxOutputReference(out_ref) ==
    LET transaction_id == wrap_with_constr(0, BoundedBytes(out_ref.transaction_id))
        output_index == FromU64(out_ref.output_index)
    IN  Constr(0, <<transaction_id, output_index>>)

\* the reference script of an output: Option<Vec<u8>>
FromReferenceScript(reference_script) ==
    IF reference_script = [none |-> TRUE] THEN FromOption(reference_script)
    ELSE FromOption(BoundedBytes(reference_script))

\* impl From<CtxOutput> for PlutusData
FromCtxOutput(output) ==
    Constr(0, <<FromAddress(output.address), FromCtxValue(output.value),
                FromCtxDatum(output.datum), FromReferenceScript(output.reference_script)>>)

\* impl From<Input> for PlutusData
FromInput(input) ==
    LET output_reference ==
            FromCtxOutputReference([transaction_id |-> input.transaction_id,
                                    output_index |-> input.output_index])
        output ==
            FromCtxOutput([address |-> input.address, value |-> input.value,
                           datum |-> input.datum,
                           reference_script |-> input.reference_script])
    IN  Constr(0, <<output_reference, output>>)

CtxMint(policy_id) == [purpose |-> "Mint", policy_id |-> policy_id]

CtxSpend(out_ref) == [purpose |-> "Spend", out_ref |-> out_ref]

\* the purposes the conversion does not handle
CtxOtherPurpose(purpose) == [purpose |-> purpose]

\* the twelve fields of the transaction info, in the order they are listed;
\* ctx.datums is the mapping from hash to datum and ctx.datums_iter the order
\* in which ctx.datums.into_iter() yields its hashes
TxInfoFields(ctx) ==
    LET inputs == Array(SeqMap(FromInput, ctx.inputs))
        reference_inputs == Array(<<>>)
        outputs == Array(SeqMap(FromCtxOutput, ctx.outputs))
        fee == PlutusMap(BoundedBytes(<<>>) :>
                   PlutusMap(BoundedBytes(<<>>) :> FromI64(999)))
        mint == PlutusMap(BoundedBytes(<<>>) :>
                    PlutusMap(BoundedBytes(<<>>) :> FromI64(0)))
        dcert == Array(<<>>)
        wdrl == PlutusMap(<<>>)
        valid_range == FromValidRange(ctx.range)
        signers == Append(SeqMap(FromPubKeyHash, ctx.extra_signatories),
                          FromPubKeyHash(ctx.signer))
        signatories == Array(signers)
        redeemers == PlutusMap(<<>>)
        DatumEntry(hash) == <<BoundedBytes(hash), ctx.datums[hash]>>
        data == CollectMap(SeqMap(DatumEntry, ctx.datums_iter))
        id == wrap_with_constr(0, BoundedBytes(<<>>))
    IN  <<inputs, reference_inputs, outputs, fee, mint, dcert, wdrl, valid_range,
          signatories, redeemers, data, id>>

\* the script purpose: Mint is constructor 0, Spend is constructor 1
FromCtxScriptPurpose(purpose) ==
    IF purpose.purpose = "Mint"
    THEN wrap_with_constr(0, BoundedBytes(purpose.policy_id))
    ELSE IF purpose.purpose = "Spend"
    THEN wrap_with_constr(1, FromCtxOutputReference(purpose.out_ref))
    ELSE Todo

\* mutant of the context conversion: the primary signer is put first
FromTxContextSignerFirst(ctx) ==
    LET fields == TxInfoFields(ctx)
        signers == <<FromPubKeyHash(ctx.signer)>>
                       \o SeqMap(FromPubKeyHash, ctx.extra_signatories)
        tx_info == Constr(0, [fields EXCEPT ![9] = Array(signers)])
    IN  Constr(0, <<tx_info, FromCtxScriptPurpose(ctx.purpose)>>)

\* impl From<TxContext> for PlutusData
FromTxContext(ctx) ==
    LET tx_info == Constr(0, TxInfoFields(ctx))
        purpose == FromCtxScriptPurpose(ctx.purpose)
    IN  Constr(0, <<tx_info, purpose>>)

\* RawPlutusValidator::execute: the context is converted to its term tree and
\* the script is applied to it; a panic of the conversion ends the call
\* before the script runs
RawValidatorExecute(ctx) ==
    LET term == FromTxContext(ctx)
    IN  IF IsPanic(term) THEN [outcome |-> "panic", message |-> term.message]
        ELSE [outcome |-> "executed", context |-> term]

\* ------------------------------------------ the conversions as pure functions
\* key and script hashes
Hashes == {<<1>>, <<2>>}

\* the bounds a ContextBuilder can be given with with_range
RangeBounds == {NoBound} \cup [value : {-1, 0, MaxTime}, inclusive : BOOLEAN]

ValidRanges == [lower : RangeBounds, upper : RangeBounds]

PaymentParts == {ShelleyKey(h) : h \in Hashes} \cup {ShelleyScript(h) : h \in Hashes}

DelegationParts ==
    {ShelleyKey(h) : h \in Hashes} \cup {ShelleyScript(h) : h \in Hashes}
        \cup {ShelleyPointer(s, t, c) : s \in {0, U64Max}, t \in {0, 1}, c \in {0, I64Max + 1}}
        \cup {ShelleyNull}

EncAddresses ==
    {ShelleyAddress(p, d) : p \in PaymentParts, d \in DelegationParts}
        \cup {OtherAddress("Byron")}

\* an input holding lovelace at a key address, and one holding a native token
\* and an inline datum at a script address
CtxInputs ==
    LET ada == [inner |-> (<<>> :> (<<>> :> StartAmount)), iter |-> <<<<>>>>]
        token == [inner |-> (<<"0", "a">> :> (<<"N", "F", "T">> :> 1)),
                  iter |-> <<<<"0", "a">>>>]
        in1 == [transaction_id |-> <<1>>, output_index |-> 0,
                address |-> ShelleyAddress(ShelleyKey(<<1>>), ShelleyNull),
                value |-> ada, datum |-> CtxNoDatum,
                reference_script |-> [none |-> TRUE]]
        in2 == [transaction_id |-> <<2>>, output_index |-> 1,
                address |-> ShelleyAddress(ShelleyScript(<<2>>), ShelleyKey(<<1>>)),
                value |-> token, datum |-> CtxInlineDatum(FromI64(1)),
                reference_script |-> [none |-> TRUE]]
        In3(value) ==
            [transaction_id |-> <<2>>, output_index |-> 0,
             address |-> ShelleyAddress(ShelleyKey(<<2>>), ShelleyNull),
             value |-> value, datum |-> CtxNoDatum,
             reference_script |-> [none |-> TRUE]]
        mixed == (<<>> :> (<<>> :> 1)) @@ (<<"0", "a">> :> (<<"N", "F", "T">> :> 1))
        spelled == (<<"0", "a">> :> (<<"N", "F", "T">> :> 1))
                       @@ (<<"0", "A">> :> (<<"N", "F", "T">> :> 2))
    IN  {<<>>, <<in1>>, <<in1, in2>>, <<in2, in1>>}
            \cup {<<In3([inner |-> inner, iter |-> order])>> :
                     inner \in {mixed}, order \in IterationOrders(DOMAIN mixed)}
            \cup {<<In3([inner |-> inner, iter |-> order])>> :
                     inner \in {spelled}, order \in IterationOrders(DOMAIN spelled)}

CtxOutputs ==
    LET ada == [inner |-> (<<>> :> (<<>> :> 1)), iter |-> <<<<>>>>]
        out1 == [address |-> ShelleyAddress(ShelleyScript(<<2>>), ShelleyNull),
                 value |-> ada, datum |-> CtxDatumHash(<<2>>),
                 reference_script |-> [none |-> TRUE]]
    IN  {<<>>, <<out1>>}

CtxPurposes ==
    {CtxMint(<<1>>),
     CtxSpend([transaction_id |-> <<1>>, output_index |-> 0]),
     CtxOtherPurpose("WithdrawFrom")}

TxContexts ==
    LET one == (<<2>> :> FromI64(1))
        two == (<<1>> :> FromI64(0)) @@ (<<2>> :> FromI64(1))
    IN  {ctx \in [purpose : CtxPurposes,
                  signer : Hashes,
                  range : {r \in ValidRanges :
                              /\ r.lower \in {NoBound, [value |-> 0, inclusive |-> TRUE]}
                              /\ r.upper \in {NoBound, [value |-> MaxTime, inclusive |-> FALSE]}},
                  inputs : CtxInputs,
                  outputs : CtxOutputs,
                  extra_signatories : {<<>>, <<<<1>>>>, <<<<1>>, <<2>>>>, <<<<2>>, <<1>>>>},
                  datums : {<<>>, one, two},
                  datums_iter : {<<>>, <<<<2>>>>, <<<<1>>, <<2>>>>, <<<<2>>, <<1>>>>}] :
            ctx.datums_iter \in IterationOrders(DOMAIN ctx.datums)}

\* the values of a context: one or two policies, quantities up to the largest
\* u64, the two orders a two-policy mapping can be visited in, two spellings
\* of one policy id, and a policy id that is not hexadecimal
CtxValues ==
    LET Quantities == {0, 1, I64Max, I64Max + 1, U64Max}
        lovelace == <<>>
        nft == <<"N", "F", "T">>
        single == {[inner |-> (p :> (an :> q)), iter |-> <<p>>] :
                      p \in {lovelace, <<"0", "a">>}, an \in {lovelace, nft},
                      q \in Quantities}
        TwoPolicies(p1, a1, p2, a2) ==
            {[inner |-> (p1 :> a1) @@ (p2 :> a2), iter |-> order] :
                order \in IterationOrders({p1, p2})}
        double == UNION {TwoPolicies(lovelace, lovelace :> q1, <<"0", "a">>, nft :> q2) :
                            q1 \in {1, I64Max + 1}, q2 \in {1, U64Max}}
        spelled == TwoPolicies(<<"0", "a">>, nft :> 1, <<"0", "A">>, nft :> 2)
        not_hex == {[inner |-> (<<"N">> :> (nft :> 1)), iter |-> <<<<"N">>>>]}
    IN  single \cup double \cup spelled \cup not_hex

\* output references with indices up to the largest u64
CtxOutputReferences ==
    [transaction_id : Hashes, output_index : {0, 1, I64Max, I64Max + 1, U64Max}]

\* the signed 64-bit integers and the data a datum is read back from, in
\* either kind of build
I64Inputs ==
    [n : I64Min..I64Max, overflow_checks : BOOLEAN]
        \cup [data : {BoundedBytes(<<>>), [pd |-> "BigInt", int |-> [bytes |-> <<1>>]]},
              overflow_checks : BOOLEAN]

InitEncode ==
    /\ contract = "checking"
    /\ utxos = <<>>
    /\ signer = Me
    /\ txCount = 1
    /\ pending = [c \in Clients |-> Idle]
    /\ spent = [id \in {} |-> 0]
    /\ \/ \E value \in ValidRanges :
            last = [stage |-> "input", kind |-> "range", value |-> value]
       \/ \E value \in EncAddresses :
            last = [stage |-> "input", kind |-> "address", value |-> value]
       \/ \E value \in TxContexts :
            last = [stage |-> "input", kind |-> "context", value |-> value]
       \/ \E value \in CtxValues :
            last = [stage |-> "input", kind |-> "value", value |-> value]
       \/ \E value \in CtxOutputReferences :
            last = [stage |-> "input", kind |-> "out_ref", value |-> value]
       \/ \E value \in I64Inputs :
            last = [stage |-> "input", kind |-> "int", value |-> value]

\* let valid_range = ctx.range.into()
EncodeValidRange ==
    /\ last.stage = "input" /\ last.kind = "range"
    /\ last' = [stage |-> "encoded", kind |-> "range", value |-> last.value,
                result |-> FromValidRange(last.value)]
    /\ UNCHANGED <<contract, utxos, signer, txCount, pending, spent>>

\* let address = output.address.into()
EncodeAddress ==
    /\ last.stage = "input" /\ last.kind = "address"
    /\ last' = [stage |-> "encoded", kind |-> "address", value |-> last.value,
                result |-> FromAddress(last.value)]
    /\ UNCHANGED <<contract, utxos, signer, txCount, pending, spent>>

\* PlutusData::from(ctx)
EncodeContext ==
    /\ last.stage = "input" /\ last.kind = "context"
    /\ last' = [stage |-> "encoded", kind |-> "context", value |-> last.value,
                result |-> FromTxContext(last.value)]
    /\ UNCHANGED <<contract, utxos, signer, txCount, pending, spent>>

\* let value = output.value.into()
EncodeValue ==
    /\ last.stage = "input" /\ last.kind = "value"
    /\ last' = [stage |-> "encoded", kind |-> "value", value |-> last.value,
                result |-> FromCtxValue(last.value)]
    /\ UNCHANGED <<contract, utxos, signer, txCount, pending, spent>>

\* let out_ref_data = out_ref.into()
EncodeOutputReference ==
    /\ last.stage = "input" /\ last.kind = "out_ref"
    /\ last' = [stage |-> "encoded", kind |-> "out_ref", value |-> last.value,
                result |-> FromCtxOutputReference(last.value)]
    /\ UNCHANGED <<contract, utxos, signer, txCount, pending, spent>>

\* let data: PlutusData = n.into(); let back: i64 = data.try_into()
RoundTripI64 ==
    /\ last.stage = "input" /\ last.kind = "int"
    /\ LET data == IF "n" \in DOMAIN last.value THEN FromI64(last.value.n)
                   ELSE last.value.data
       IN  last' = [stage |-> "decoded", kind |-> "int", value |-> last.value,
                    data |-> data,
                    result |-> I64TryFromPlutusData(data, last.value.overflow_checks)]
    /\ UNCHANGED <<contract, utxos, signer, txCount, pending, spent>>

\* script.execute(datum, redeemer, ctx)
ExecuteRaw ==
    /\ last.stage = "input" /\ last.kind = "context"
    /\ last' = [stage |-> "executed", kind |-> "context", value |-> last.value,
                result |-> RawValidatorExecute(last.value)]
    /\ UNCHANGED <<contract, utxos, signer, txCount, pending, spent>>

NextEncode ==
    \/ EncodeValidRange
    \/ EncodeAddress
    \/ EncodeContext
    \/ EncodeValue
    \/ EncodeOutputReference
    \/ RoundTripI64
    \/ ExecuteRaw

SpecEncode == InitEncode /\ [][NextEncode]_vars

\* a Constr term with the given constructor index and number of fields
IsConstr(term, constr, arity) ==
    term.pd = "Constr" /\ term.constr = constr /\ Len(term.fields) = arity

IsEmptyMap(term) == term.pd = "Map" /\ DOMAIN term.map = {}

\* C27: context encoding field order. A context that encodes is constructor 0
\* of [tx_info, purpose]; tx_info is constructor 0 with exactly twelve fields,
\* in order: inputs, reference inputs (always the empty list), outputs, fee,
\* mint, certificates, withdrawals, valid range, signatories (the extra
\* signatories in order followed by the primary signer), redeemers, datums by
\* hash and the placeholder transaction id; the purpose is constructor 0 for
\* Mint(policy id) and constructor 1 for Spend(output reference).
C27_ContextFieldOrder ==
    (last.stage = "encoded" /\ last.kind = "context" /\ ~IsPanic(last.result))
       => LET ctx == last.value
              term == last.result
              tx_info == term.fields[1]
              purpose == term.fields[2]
              f == tx_info.fields
              n == Len(ctx.extra_signatories)
          IN  /\ IsConstr(term, 0, 2)
              /\ IsConstr(tx_info, 0, 12)
              /\ f[1].pd = "Array" /\ Len(f[1].items) = Len(ctx.inputs)
              /\ \A i \in 1..Len(ctx.inputs) :
                    /\ IsConstr(f[1].items[i], 0, 2)
                    /\ f[1].items[i].fields[1].fields[1].fields[1].bytes
                           = ctx.inputs[i].transaction_id
              /\ f[2] = [pd |-> "Array", items |-> <<>>]
              /\ f[3].pd = "Array" /\ Len(f[3].items) = Len(ctx.outputs)
              /\ \A i \in 1..Len(ctx.outputs) :
                    /\ IsConstr(f[3].items[i], 0, 4)
                    /\ f[3].items[i].fields[1] = FromAddress(ctx.outputs[i].address)
              /\ f[4].pd = "Map"
              /\ f[4].map[BoundedBytes(<<>>)].map[BoundedBytes(<<>>)].int
                     = [neg |-> FALSE, val |-> 999]
              /\ f[5].pd = "Map"
              /\ f[5].map[BoundedBytes(<<>>)].map[BoundedBytes(<<>>)].int
                     = [neg |-> FALSE, val |-> 0]
              /\ f[6] = [pd |-> "Array", items |-> <<>>]
              /\ IsEmptyMap(f[7])
              /\ IsConstr(f[8], 0, 2)
              /\ IsConstr(f[8].fields[1], 0, 2) /\ IsConstr(f[8].fields[2], 0, 2)
              /\ f[9].pd = "Array" /\ Len(f[9].items) = n + 1
              /\ \A i \in 1..n : f[9].items[i].bytes = ctx.extra_signatories[i]
              /\ f[9].items[n + 1].bytes = ctx.signer
              /\ IsEmptyMap(f[10])
              /\ f[11].pd = "Map"
              /\ {k.bytes : k \in DOMAIN f[11].map} = DOMAIN ctx.datums
              /\ \A k \in DOMAIN f[11].map : f[11].map[k] = ctx.datums[k.bytes]
              /\ IsConstr(f[12], 0, 1) /\ f[12].fields[1] = BoundedBytes(<<>>)
              /\ ctx.purpose.purpose = "Mint"
                    => /\ IsConstr(purpose, 0, 1)
                       /\ purpose.fields[1] = BoundedBytes(ctx.purpose.policy_id)
              /\ ctx.purpose.purpose = "Spend"
                    => /\ IsConstr(purpose, 1, 1)
                       /\ IsConstr(purpose.fields[1], 0, 2)
                       /\ purpose.fields[1].fields[1].fields[1].bytes
                              = ctx.purpose.out_ref.transaction_id
                       /\ purpose.fields[1].fields[2].int.val
                              = ctx.purpose.out_ref.output_index

\* a spending context with two inputs, an output, a datum and two extra
\* signatories different from the primary signer was encoded
C27_Witness ==
    /\ last.stage = "encoded" /\ last.kind = "context"
    /\ ~IsPanic(last.result)
    /\ last.value.purpose.purpose = "Spend"
    /\ Len(last.value.inputs) = 2
    /\ Len(last.value.outputs) = 1
    /\ DOMAIN last.value.datums # {}
    /\ Len(last.value.extra_signatories) = 2
    /\ last.value.extra_signatories[2] # last.value.signer
    /\ last.result.fields[1].fields[9].items[3].bytes = last.value.signer

\* reading an interval term: the kind and closure of a bound, the integer of
\* a finite bound
BoundKind(bound) ==
    IF IsConstr(bound.fields[1], 0, 0) THEN "NegInf"
    ELSE IF IsConstr(bound.fields[1], 1, 1) THEN "Finite"
    ELSE IF IsConstr(bound.fields[1], 2, 0) THEN "PosInf"
    ELSE "none"

BoundClosed(bound) == IsConstr(bound.fields[2], 1, 0)

BoundOpen(bound) == IsConstr(bound.fields[2], 0, 0)

IntOf(term) == IF term.int.neg THEN -term.int.val ELSE term.int.val

\* C28: valid-range encoding. A range with no bounds encodes as the
\* always-true interval: lower bound minus infinity, upper bound plus
\* infinity, both closed. A range with only a lower bound (b, inclusive)
\* encodes as an interval whose lower bound is Finite(b) with the closure flag
\* True exactly when inclusive, and whose upper bound is plus infinity.
C28_ValidRangeEncoding ==
    (last.stage = "encoded" /\ last.kind = "range" /\ last.value.upper = NoBound)
       => LET term == last.result
              lower == term.fields[1]
              upper == term.fields[2]
          IN  /\ IsConstr(term, 0, 2)
              /\ IsConstr(lower, 0, 2) /\ IsConstr(upper, 0, 2)
              /\ BoundKind(upper) = "PosInf" /\ BoundClosed(upper)
              /\ last.value.lower = NoBound
                    => (BoundKind(lower) = "NegInf" /\ BoundClosed(lower))
              /\ last.value.lower # NoBound
                    => /\ BoundKind(lower) = "Finite"
                       /\ lower.fields[1].fields[1].pd = "BigInt"
                       /\ IntOf(lower.fields[1].fields[1]) = last.value.lower.value
                       /\ BoundClosed(lower) <=> last.value.lower.inclusive
                       /\ BoundOpen(lower) <=> ~last.value.lower.inclusive

\* a range with an exclusive negative lower bound and no upper bound was
\* encoded with an open finite lower bound
C28_Witness ==
    /\ last.stage = "encoded" /\ last.kind = "range"
    /\ last.value.upper = NoBound
    /\ last.value.lower # NoBound
    /\ last.value.lower.value < 0
    /\ ~last.value.lower.inclusive
    /\ BoundKind(last.result.fields[1]) = "Finite"
    /\ BoundOpen(last.result.fields[1])

C30_AddressEncoding ==
    (last.stage = "encoded" /\ last.kind = "address" /\ last.value.kind = "Shelley")
       => LET term == last.result
              payment == term.fields[1]
              staking == term.fields[2]
              p == last.value.payment
              d == last.value.delegation
          IN  /\ IsConstr(term, 0, 2)
              /\ p.part = "Key"
                    => (IsConstr(payment, 0, 1) /\ payment.fields[1] = BoundedBytes(p.hash))
              /\ p.part = "Script"
                    => (IsConstr(payment, 1, 1) /\ payment.fields[1] = BoundedBytes(p.hash))
              /\ d.part = "Key"
                    => /\ IsConstr(staking, 0, 1)
                       /\ IsConstr(staking.fields[1], 0, 1)
                       /\ staking.fields[1].fields[1] = BoundedBytes(d.hash)
              /\ d.part = "Script"
                    => /\ IsConstr(staking, 0, 1)
                       /\ IsConstr(staking.fields[1], 1, 1)
                       /\ staking.fields[1].fields[1] = BoundedBytes(d.hash)
              /\ d.part = "Pointer"
                    => /\ IsConstr(staking, 0, 1)
                       /\ staking.fields[1].pd = "Constr"
                       /\ Len(staking.fields[1].fields) = 3
                       /\ \A i \in 1..3 : staking.fields[1].fields[i].pd = "BigInt"
                       /\ d.slot <= I64Max
                             => IntOf(staking.fields[1].fields[1]) = d.slot
                       /\ d.tx_idx <= I64Max
                             => IntOf(staking.fields[1].fields[2]) = d.tx_idx
                       /\ d.cert_idx <= I64Max
                             => IntOf(staking.fields[1].fields[3]) = d.cert_idx
              /\ d.part = "Null" => IsConstr(staking, 1, 0)
              /\ \A other \in EncAddresses :
                    (other.kind = "Shelley" /\ other # last.value)
                       => FromAddress(other) # term

\* an address with a script payment part and a pointer delegation part was
\* encoded, its pointer carrying a slot, a tx index and a cert index
C30_Witness ==
    /\ last.stage = "encoded" /\ last.kind = "address"
    /\ last.value.kind = "Shelley"
    /\ last.value.payment.part = "Script"
    /\ last.value.delegation.part = "Pointer"
    /\ last.value.delegation.tx_idx = 1
    /\ IsConstr(last.result.fields[1], 1, 1)
    /\ Len(last.result.fields[2].fields[1].fields) = 3

\* --------------------------------------------------- quantities and indices
\* an explicit Unsupported error in place of a term
IsUnsupported(term) == term.pd = "Error" /\ term.kind = "Unsupported"

\* the integer term of a u64 that fits the signed range
IsIntegerOf(term, value) ==
    term.pd = "BigInt" /\ ~term.int.neg /\ term.int.val = value

\* C31: quantity encoding does not truncate. Every value encodes as a map
\* from policy id to a map from asset name to a signed integer equal to the
\* u64 quantity, and output indices likewise; a quantity or output index that
\* does not fit the signed range (2^63 and above, here above I64Max) gives an
\* explicit Unsupported error, never a wrapped negative integer.
C31_QuantityNotTruncated ==
    /\ (last.stage = "encoded" /\ last.kind = "value"
            /\ \A p \in DOMAIN last.value.inner : HexDecode(p).ok)
          => LET inner == last.value.inner
             IN  IF \A p \in DOMAIN inner : \A an \in DOMAIN inner[p] :
                        inner[p][an] <= I64Max
                 THEN /\ last.result.pd = "Map"
                      /\ \A p \in DOMAIN inner : \A an \in DOMAIN inner[p] :
                            LET policy_id == BoundedBytes(HexDecode(p).val)
                                asset_name == BoundedBytes(AsBytes(an))
                            IN  /\ policy_id \in DOMAIN last.result.map
                                /\ last.result.map[policy_id].pd = "Map"
                                /\ asset_name \in DOMAIN last.result.map[policy_id].map
                                /\ IsIntegerOf(last.result.map[policy_id].map[asset_name],
                                               inner[p][an])
                 ELSE IsUnsupported(last.result)
    /\ (last.stage = "encoded" /\ last.kind = "out_ref")
          => IF last.value.output_index <= I64Max
             THEN /\ IsConstr(last.result, 0, 2)
                  /\ IsIntegerOf(last.result.fields[2], last.value.output_index)
             ELSE IsUnsupported(last.result)

\* C31, as the code converts: for a quantity or index q the integer is q read
\* as a signed integer of the same width, q itself when it fits and
\* q - 2^IntBits (negative) when it does not; no error is reported
C31_QuantityWraps ==
    /\ (last.stage = "encoded" /\ last.kind = "value"
            /\ Len(last.value.iter) = 1 /\ HexDecode(last.value.iter[1]).ok)
          => LET p == last.value.iter[1]
                 assets == last.result.map[BoundedBytes(HexDecode(p).val)]
             IN  \A an \in DOMAIN last.value.inner[p] :
                    IntOf(assets.map[BoundedBytes(AsBytes(an))])
                        = IF last.value.inner[p][an] <= I64Max
                          THEN last.value.inner[p][an]
                          ELSE last.value.inner[p][an] - 2^IntBits
    /\ (last.stage = "encoded" /\ last.kind = "out_ref")
          => IntOf(last.result.fields[2])
                 = IF last.value.output_index <= I64Max
                   THEN last.value.output_index
                   ELSE last.value.output_index - 2^IntBits

\* a quantity of 2^63 (here I64Max + 1) was encoded and came out negative
C31_Witness ==
    /\ last.stage = "encoded" /\ last.kind = "value"
    /\ Len(last.value.iter) = 1
    /\ \E an \in DOMAIN last.value.inner[last.value.iter[1]] :
          /\ last.value.inner[last.value.iter[1]][an] = I64Max + 1
          /\ last.result.pd = "Map"
          /\ \E k \in DOMAIN last.result.map :
                last.result.map[k].map[BoundedBytes(AsBytes(an))].int
                    = [neg |-> TRUE, val |-> I64Max + 1]

\* ------------------------------------------------------ equal contexts
\* the values equal to a value: the same mapping, visited in any order
EqualValues(value) ==
    {[inner |-> value.inner, iter |-> order] :
        order \in IterationOrders(DOMAIN value.inner)}

\* the sequences of inputs (or outputs) equal to the given one
EqualItems(items) ==
    LET values == UNION {EqualValues(items[i].value) : i \in 1..Len(items)}
    IN  {[i \in 1..Len(items) |-> [items[i] EXCEPT !.value = choice[i]]] :
            choice \in {c \in [1..Len(items) -> values] :
                           \A i \in 1..Len(items) : c[i] \in EqualValues(items[i].value)}}

\* the contexts equal to a context: the same signer, extra signatories,
\* range, inputs, outputs, datums and purpose, whatever order the datums and
\* the value entries were inserted in
EqualContexts(ctx) ==
    {[ctx EXCEPT !.datums_iter = datums_iter, !.inputs = inputs, !.outputs = outputs] :
        datums_iter \in IterationOrders(DOMAIN ctx.datums),
        inputs \in EqualItems(ctx.inputs),
        outputs \in EqualItems(ctx.outputs)}

\* no two policy ids of the value are spellings of the same bytes
DistinctPolicies(value) ==
    \A p \in DOMAIN value.inner : \A q \in DOMAIN value.inner :
        p # q => HexDecode(p) # HexDecode(q)

\* C32: context encoding is deterministic. Encoding two equal contexts (same
\* signer, extra signatories, range, inputs, outputs, datums, purpose) gives
\* identical term trees, whatever order the datums or the value entries were
\* inserted in; the ledger state is not read.
C32_DeterministicEncoding ==
    (last.stage = "encoded" /\ last.kind = "context")
       => \A ctx \in EqualContexts(last.value) : FromTxContext(ctx) = last.result

\* C32, for values whose policy ids decode to distinct bytes: equal contexts
\* encode to identical term trees (or fail alike)
C32_DeterministicForDistinctPolicies ==
    (/\ last.stage = "encoded" /\ last.kind = "context"
     /\ \A i \in 1..Len(last.value.inputs) : DistinctPolicies(last.value.inputs[i].value)
     /\ \A i \in 1..Len(last.value.outputs) : DistinctPolicies(last.value.outputs[i].value))
       => \A ctx \in EqualContexts(last.value) : FromTxContext(ctx) = last.result

\* a context was encoded whose input value lists one policy id in two
\* spellings, and an equal context visited in the other order encodes to a
\* different term tree
C32_Witness ==
    /\ last.stage = "encoded" /\ last.kind = "context"
    /\ ~IsPanic(last.result)
    /\ Len(last.value.inputs) = 1
    /\ ~DistinctPolicies(last.value.inputs[1].value)
    /\ Cardinality(DOMAIN last.value.datums) = 2
    /\ \E ctx \in EqualContexts(last.value) :
          /\ ctx.datums_iter = last.value.datums_iter
          /\ ~IsPanic(FromTxContext(ctx))
          /\ FromTxContext(ctx) # last.result

\* ------------------------------------------- raw minting policies, executed
\* script files: every text of up to four of these characters, whatever the
\* flat bytes inside turn out to be
ScriptFiles ==
    LET Chars == {"4", "1", "0", "f", "z"}
        Texts == UNION {[1..n -> Chars] : n \in 0..4}
    IN  {PlutusScriptFile(cborHex, program) :
            cborHex \in Texts, program \in {"NotFlat", "NotConvertible", "Program"}}

\* the asset the raw policy is asked to mint
RAW_ASSET_NAME == "raw"

InitRaw ==
    /\ contract = "checking"
    /\ utxos = CheckingLedger(1)
    /\ signer = Me
    /\ txCount = 1
    /\ pending = [c \in Clients |-> Idle]
    /\ spent = [id \in {} |-> 0]
    /\ \E script_file \in ScriptFiles :
          last = [stage |-> "input", script_file |-> script_file]

\* RawPolicy::new_v1(script_file)
NewV1 ==
    /\ last.stage = "input"
    /\ last' = [stage |-> "constructed", script_file |-> last.script_file,
                result |-> RawPolicyNewV1(last.script_file)]
    /\ UNCHANGED <<contract, utxos, signer, txCount, pending, spent>>

\* policy.execute(redeemer, ctx)
ExecuteRawPolicy ==
    /\ last.stage = "constructed"
    /\ last.result.ok
    /\ last' = [stage |-> "executed", policy |-> last.result.val,
                result |-> PolicyExecute(last.result.val, "unit",
                              [signer |-> signer, range |-> [lower |-> NoBound, upper |-> NoBound],
                               inputs |-> <<>>, outputs |-> <<>>,
                               purpose |-> <<"Mint", last.result.val>>])]
    /\ UNCHANGED <<contract, utxos, signer, txCount, pending, spent>>

\* a transaction minting one token under the raw policy is built and issued
IssueRawMint ==
    /\ last.stage = "constructed"
    /\ last.result.ok
    /\ LET actions == <<Mint(1, RAW_ASSET_NAME, "unit", last.result.val)>>
           out == issue(to_unbuilt_tx(actions).val)
       IN  /\ utxos' = out.utxos
           /\ txCount' = out.txCount
           /\ spent' = [id \in DOMAIN spent \cup out.consumed |->
                            Get(spent, id) + (IF id \in out.consumed THEN 1 ELSE 0)]
           /\ last' = [stage |-> "issued", policy |-> last.result.val,
                       result |-> HitEndpointFinish(out.result)]
    /\ UNCHANGED <<contract, signer, pending>>

NextRaw == NewV1 \/ ExecuteRawPolicy \/ IssueRawMint

SpecRaw == InitRaw /\ [][NextRaw]_vars

\* C33: executing a raw minting policy is a deferred path that yields an
\* explicit Unsupported error result. RawPolicy::execute never reports
\* success and never aborts the process (no panic); a submission whose mint
\* uses a raw policy is rejected with that error and the ledger is unchanged.
C33_RawPolicyUnsupported ==
    LET decodes(policy) ==
            /\ policy.script_file.program = "Program"
            /\ CborBytes(CborBytes(HexDecode(policy.script_file.cborHex).val).val).ok
    IN  /\ last.stage = "executed"
              => /\ ~last.result.ok
                 /\ last.result.kind # "Panic"
                 /\ decodes(last.policy) => last.result.kind = "Unsupported"
        /\ last.stage = "issued"
              => /\ ~last.result.ok
                 /\ last.result.kind # "Panic"
                 /\ decodes(last.policy) => last.result.kind = "Unsupported"
                 /\ utxos = CheckingLedger(1)
                 /\ txCount = 1

\* C33, as the code behaves: RawPolicy::execute never reports success; a
\* constructed policy whose inner bytes are not a CBOR byte string, or whose
\* program does not convert, gives the FailedToExecute error, and every other
\* one ends in a panic (todo!() once the program is decoded, unwrap when the
\* flat bytes are not a program); a submission minting under the policy never
\* commits and the ledger is unchanged.
C33_RawPolicyNeverSucceeds ==
    /\ last.stage = "executed"
          => /\ ~last.result.ok
             /\ last.result.kind \in {"ScriptExecution", "Panic"}
             /\ (last.policy.script_file.program = "Program"
                    /\ CborBytes(CborBytes(HexDecode(last.policy.script_file.cborHex).val).val).ok)
                   => last.result = Err("Panic", "not yet implemented")
    /\ last.stage = "issued"
          => /\ ~last.result.ok
             /\ last.result.kind \in {"ScriptExecution", "Panic"}
             /\ utxos = CheckingLedger(1)
             /\ txCount = 1

\* a well-formed raw policy was executed and the call ended in todo!()
C33_Witness ==
    /\ last.stage = "executed"
    /\ last.policy.script_file.program = "Program"
    /\ last.result = Err("Panic", "not yet implemented")

\* ----------------------------------------------- account balance replacement

\* C34: fund and withdraw replace the account output. After
\* FundAccount{output_id, f} (resp. WithdrawFromAccount{output_id, w}, w not
\* above the account's lovelace) commits on an account output holding L
\* lovelace, the checking-account script address holds an output with L + f
\* (resp. L - w) lovelace whose datum and every other asset quantity equal
\* those of the consumed output, and the consumed output id is gone.
C34_FundWithdrawReplace ==
    [][\A c \in Clients :
          (/\ IssueStep(c)
           /\ pending[c].endpoint.type \in {"FundAccount", "WithdrawFromAccount"}
           /\ last'.result.ok)
             => LET endpoint == pending[c].endpoint
                    old == CHOOSE o \in {utxos[i] : i \in 1..Len(utxos)} :
                              o.id = endpoint.output_id
                    L == Get(old.values, Lovelace)
                    expected == IF endpoint.type = "FundAccount"
                                THEN L + endpoint.fund_amount
                                ELSE L - endpoint.withdraw_amount
                IN  /\ endpoint.output_id \in IdsOf(utxos)
                    /\ endpoint.output_id \notin IdsOf(utxos')
                    /\ expected >= 0
                    /\ \E j \in 1..Len(utxos') :
                          /\ utxos'[j].id \notin IdsOf(utxos)
                          /\ utxos'[j].owner = CheckingAddress
                          /\ Get(utxos'[j].values, Lovelace) = expected
                          /\ utxos'[j].datum = old.datum
                          /\ \A x \in (DOMAIN old.values \cup DOMAIN utxos'[j].values)
                                         \ {Lovelace} :
                                Get(utxos'[j].values, x) = Get(old.values, x)]_vars

\* a withdrawal of a positive amount committed: the account output at the
\* script address holds less lovelace than the account started with and
\* still holds the account's token
C34_Witness ==
    /\ last.stage = "issue"
    /\ last.endpoint.type = "WithdrawFromAccount"
    /\ last.endpoint.withdraw_amount > 0
    /\ last.result.ok
    /\ \E i \in 1..Len(utxos) :
          /\ utxos[i].owner = CheckingAddress
          /\ Get(utxos[i].values, Lovelace) = StartAmount - last.endpoint.withdraw_amount
          /\ Get(utxos[i].values,
                 NativeToken(GenesisNft, CHECKING_ACCOUNT_NFT_ASSET_NAME)) = 1

\* C35: pull moves exactly the pulled amount. After
\* PullFromCheckingAccount{amount = p} commits on an account output holding L
\* lovelace (p <= L), the account script address holds L - p lovelace in the
\* account's new output (its balance is p lower), the wallet of the puller,
\* the signer, has gained p lovelace, and the allow-pull script address
\* still holds an output with the same value as the consumed allow-pull
\* output.
C35_PullMovesAmount ==
    [][\A c \in Clients :
          (/\ IssueStep(c)
           /\ pending[c].endpoint.type = "PullFromCheckingAccount"
           /\ last'.result.ok)
             => LET endpoint == pending[c].endpoint
                    account == CHOOSE o \in {utxos[i] : i \in 1..Len(utxos)} :
                                  o.id = endpoint.checking_account_output_id
                    allow == CHOOSE o \in {utxos[i] : i \in 1..Len(utxos)} :
                                o.id = endpoint.allow_pull_output_id
                    L == Get(account.values, Lovelace)
                    p == endpoint.amount
                IN  /\ {endpoint.checking_account_output_id,
                        endpoint.allow_pull_output_id} \subseteq IdsOf(utxos)
                    /\ p <= L
                    /\ \E j \in 1..Len(utxos') :
                          /\ utxos'[j].id \notin IdsOf(utxos)
                          /\ utxos'[j].owner = CheckingAddress
                          /\ Get(utxos'[j].values, Lovelace) = L - p
                    /\ BalanceIn(utxos', CheckingAddress, Lovelace)
                           = BalanceIn(utxos, CheckingAddress, Lovelace) - p
                    /\ BalanceIn(utxos', signer, Lovelace)
                           = BalanceIn(utxos, signer, Lovelace) + p
                    /\ \E j \in 1..Len(utxos') :
                          /\ utxos'[j].id \notin IdsOf(utxos)
                          /\ utxos'[j].owner = PullAddress
                          /\ utxos'[j].values = allow.values]_vars

\* a pull of a positive amount committed
C35_Witness ==
    /\ last.stage = "issue"
    /\ last.endpoint.type = "PullFromCheckingAccount"
    /\ last.endpoint.amount > 0
    /\ last.result.ok
    /\ \E i \in 1..Len(utxos) :
          /\ utxos[i].owner = CheckingAddress
          /\ Get(utxos[i].values, Lovelace) = StartAmount - last.endpoint.amount
    /\ BalanceIn(utxos, Me, Lovelace)
           = MIN_LOVELACE + StartAmount + 1 + last.endpoint.amount

\* ------------------------------------------------------------ over-withdrawal
\* the endpoint asks to take more lovelace than the account output it names
\* holds (the outputs it names exist and carry their datums)
OverWithdrawal(endpoint) ==
    LET Found(address, id) ==
            /\ FindById(all_outputs_at_address(address), id).found
            /\ FindById(all_outputs_at_address(address), id).output.datum # NoDatum
        LovelaceOf(id) ==
            Get(FindById(all_outputs_at_address(CheckingAddress), id).output.values,
                Lovelace)
    IN  \/ /\ endpoint.type = "WithdrawFromAccount"
           /\ Found(CheckingAddress, endpoint.output_id)
           /\ endpoint.withdraw_amount > LovelaceOf(endpoint.output_id)
        \/ /\ endpoint.type = "PullFromCheckingAccount"
           /\ Found(PullAddress, endpoint.allow_pull_output_id)
           /\ Found(CheckingAddress, endpoint.checking_account_output_id)
           /\ endpoint.amount > LovelaceOf(endpoint.checking_account_output_id)

\* C36: over-withdrawal is refused before submission. WithdrawFromAccount or
\* PullFromCheckingAccount with an amount greater than the account output's
\* lovelace makes handle_endpoint return an Endpoint error wrapping the
\* Arithmetic underflow; no transaction is built or issued for it and every
\* address's outputs are unchanged.
C36_OverWithdrawalRefused ==
    [][/\ \A endpoint \in Endpoints :
            OverWithdrawal(endpoint)
               => /\ handle_endpoint(endpoint) = Err("Endpoint", "Arithmetic")
                  /\ HitEndpointBuild(endpoint) = Err("Endpoint", "Arithmetic")
       /\ \A c \in Clients :
            BuildStep(c) => ~OverWithdrawal(pending'[c].endpoint)
       /\ (HandleFailStep /\ OverWithdrawal(last'.endpoint))
            => /\ last'.result = Err("Endpoint", "Arithmetic")
               /\ utxos' = utxos
               /\ txCount' = txCount
               /\ pending' = pending
               /\ spent' = spent]_vars

\* a pull of more than the account holds, after an earlier transaction, was
\* refused
C36_Witness ==
    /\ last.stage = "handle"
    /\ last.endpoint.type = "PullFromCheckingAccount"
    /\ OverWithdrawal(last.endpoint)
    /\ last.result = Err("Endpoint", "Arithmetic")
    /\ txCount > 1

\* ------------------------------------------------- the zero-residue convention
\* a ledger with an account holding L lovelace, with or without its token,
\* and an allowed puller
ResidueLedger(L, with_token) ==
    LET spending_token == SpendTokenPolicy(GenesisNft, Alice)
        lovelace == AddOneValue(ValuesDefault, Lovelace, L)
        account_values ==
            IF with_token
            THEN AddOneValue(lovelace,
                     NativeToken(GenesisNft, CHECKING_ACCOUNT_NFT_ASSET_NAME), 1)
            ELSE lovelace
    IN  <<OutputNewWallet(0, 0, Me,
              AddOneValue(ValuesDefault, Lovelace, MIN_LOVELACE + StartAmount)),
          OutputNewValidator(0, 2, CheckingAddress, account_values,
              CheckingAccount(Alice, spending_token)),
          OutputNewValidator(0, 3, PullAddress,
              AddOneValue(ValuesDefault,
                  NativeToken(spending_token, SPEND_TOKEN_ASSET_NAME), 1),
              AllowedPuller(Alice, Me, 1, 0, 1, spending_token,
                            CheckingAddress, GenesisNft))>>

InitResidue ==
    /\ contract = "checking"
    /\ \E L \in 0..StartAmount, with_token \in BOOLEAN :
          utxos = ResidueLedger(L, with_token)
    /\ signer = Me
    /\ txCount = 1
    /\ pending = [c \in Clients |-> Idle]
    /\ spent = [id \in {} |-> 0]
    /\ \E amount \in 0..(StartAmount + MaxAmount) :
          last = [stage |-> "input", amount |-> amount]

\* old_values.try_subtract(&sub_values) on the account's values
SubtractFromAccount ==
    /\ last.stage = "input"
    /\ LET old_values == FindById(utxos, OutputIdNew(0, 2)).output.values
           sub_values == AddOneValue(ValuesDefault, Lovelace, last.amount)
       IN  last' = [stage |-> "subtracted", amount |-> last.amount,
                    a |-> old_values, b |-> sub_values,
                    result |-> TrySubtract(old_values, sub_values)]
    /\ UNCHANGED <<contract, utxos, signer, txCount, pending, spent>>

\* handle_endpoint of WithdrawFromAccount
HandleWithdraw ==
    /\ last.stage = "input"
    /\ LET endpoint == [type |-> "WithdrawFromAccount", output_id |-> OutputIdNew(0, 2),
                        withdraw_amount |-> last.amount]
       IN  last' = [stage |-> "handled", amount |-> last.amount, endpoint |-> endpoint,
                    result |-> handle_endpoint(endpoint)]
    /\ UNCHANGED <<contract, utxos, signer, txCount, pending, spent>>

\* handle_endpoint of PullFromCheckingAccount
HandlePull ==
    /\ last.stage = "input"
    /\ LET endpoint == [type |-> "PullFromCheckingAccount",
                        allow_pull_output_id |-> OutputIdNew(0, 3),
                        checking_account_output_id |-> OutputIdNew(0, 2),
                        amount |-> last.amount]
       IN  last' = [stage |-> "handled", amount |-> last.amount, endpoint |-> endpoint,
                    result |-> handle_endpoint(endpoint)]
    /\ UNCHANGED <<contract, utxos, signer, txCount, pending, spent>>

NextResidue == SubtractFromAccount \/ HandleWithdraw \/ HandlePull

SpecResidue == InitResidue /\ [][NextResidue]_vars

\* C37: the zero-residue convention is uniform. a.try_subtract(b) returns
\* None exactly when the subtraction succeeds and leaves no remaining value
\* (every resulting quantity is zero) and Some(residue) in every other
\* successful case; withdraw_from_account and pull_from_account treat that
\* None the same way: both refuse to build a transaction.
C37_ZeroResidueUniform ==
    LET account == FindById(utxos, OutputIdNew(0, 2)).output.values
        sub == AddOneValue(ValuesDefault, Lovelace, last.amount)
        succeeds == \A x \in DOMAIN sub : sub[x] <= Get(account, x)
        nothing_left == \A x \in DOMAIN account \cup DOMAIN sub :
                           Get(account, x) - Get(sub, x) = 0
    IN  /\ last.stage = "subtracted"
              => /\ (last.result.ok /\ ~last.result.val.some)
                        <=> (succeeds /\ nothing_left)
                 /\ (succeeds /\ ~nothing_left)
                        => /\ last.result.ok /\ last.result.val.some
                           /\ \A x \in DOMAIN account \cup DOMAIN sub :
                                 Get(last.result.val.values, x)
                                     = Get(account, x) - Get(sub, x)
        /\ (last.stage = "handled" /\ succeeds /\ nothing_left)
              => /\ ~last.result.ok
                 /\ last.result = Err("Endpoint", "OutputNotFound")
        /\ (last.stage = "handled" /\ succeeds /\ ~nothing_left)
              => last.result.ok

\* the whole of an account holding only lovelace was asked for by a pull and
\* the endpoint refused
C37_Witness ==
    /\ last.stage = "handled"
    /\ last.endpoint.type = "PullFromCheckingAccount"
    /\ last.amount > 0
    /\ FindById(utxos, OutputIdNew(0, 2)).output.values
           = AddOneValue(ValuesDefault, Lovelace, last.amount)
    /\ last.result = Err("Endpoint", "OutputNotFound")

\* ------------------------------------------- the transaction a pull builds
\* the ledger of the checking account tests with an allowed puller whose
\* next_pull is T and whose period is P
PullLedger(T, P) == [CheckingLedger(P) EXCEPT ![4].datum.next_pull = T]

\* the values an i64 field of the datum may hold
I64Values == I64Min..I64Max

InitPullBuild ==
    /\ contract = "checking"
    /\ \E T \in I64Values, P \in I64Values : utxos = PullLedger(T, P)
    /\ signer = Me
    /\ txCount = 1
    /\ pending = [c \in Clients |-> Idle]
    /\ spent = [id \in {} |-> 0]
    /\ \E overflow_checks \in BOOLEAN :
          last = [stage |-> "input", overflow_checks |-> overflow_checks,
                  old_datum |-> FindById(utxos, OutputIdNew(0, 3)).output.datum]

\* pull_from_account on the allowed puller and the account of the ledger
BuildPull ==
    /\ last.stage = "input"
    /\ last' = [stage |-> "built", overflow_checks |-> last.overflow_checks,
                old_datum |-> last.old_datum,
                result |-> pull_from_account_in(OutputIdNew(0, 3), OutputIdNew(0, 2),
                                                1, last.overflow_checks)]
    /\ UNCHANGED <<contract, utxos, signer, txCount, pending, spent>>

\* the built actions are turned into a transaction and issued
IssuePull ==
    /\ last.stage = "built"
    /\ last.result.ok
    /\ LET out == issue(to_unbuilt_tx(last.result.val).val)
       IN  /\ utxos' = out.utxos
           /\ txCount' = out.txCount
           /\ spent' = [id \in out.consumed |-> 1]
           /\ last' = [stage |-> "issued", overflow_checks |-> last.overflow_checks,
                       old_datum |-> last.old_datum,
                       result |-> HitEndpointFinish(out.result),
                       execs |-> out.execs]
    /\ UNCHANGED <<contract, signer, pending>>

NextPullBuild == BuildPull \/ IssuePull

SpecPullBuild == InitPullBuild /\ [][NextPullBuild]_vars

\* C38, as stated: whenever pull_from_account builds a transaction for an
\* AllowedPuller datum (next_pull = T, period = P), the replacement datum has
\* next_pull = T + P with every other field unchanged, the declared valid
\* range has no upper bound and a lower bound >= T, and the pull validator
\* accepts the transaction.
C38_PullPassesTimeGate ==
    LET T == last.old_datum.next_pull
        P == last.old_datum.period
    IN  /\ (last.stage = "built" /\ last.result.ok)
              => /\ last.result.val[2].datum
                        = [last.old_datum EXCEPT !.next_pull = T + P]
                 /\ last.result.val[5].upper = NoBound
                 /\ last.result.val[5].lower # NoBound
                 /\ last.result.val[5].lower.value >= T
        /\ last.stage = "issued"
              => /\ last.execs # <<>>
                 /\ last.execs[1].script = "pull"
                 /\ last.execs[1].result.ok

\* C38, as the code builds it: the replacement datum has next_pull set to the
\* i64 sum of T and P with every other field unchanged, the declared valid
\* range has no upper bound and the inclusive lower bound at that same sum,
\* and a sum outside the i64 range aborts the call in a build with overflow
\* checks; the lower bound is >= T and the pull validator accepts the
\* transaction exactly when P >= 0 and the sum did not wrap.
C38_PullRangeStartsAtRenewal ==
    LET T == last.old_datum.next_pull
        P == last.old_datum.period
        in_range == I64Min <= T + P /\ T + P <= I64Max
        sum == IF in_range THEN T + P ELSE WrapI64(T + P)
    IN  /\ last.stage = "built"
              => /\ last.result.ok <=> (in_range \/ ~last.overflow_checks)
                 /\ ~last.result.ok => last.result.kind = "Panic"
        /\ (last.stage = "built" /\ last.result.ok)
              => /\ last.result.val[2].datum
                        = [last.old_datum EXCEPT !.next_pull = sum]
                 /\ last.result.val[5].upper = NoBound
                 /\ last.result.val[5].lower = [value |-> sum, inclusive |-> TRUE]
                 /\ in_range => (last.result.val[5].lower.value >= T <=> P >= 0)
        /\ last.stage = "issued"
              => /\ last.execs # <<>>
                 /\ last.execs[1].script = "pull"
                 /\ last.execs[1].datum = last.old_datum
                 /\ last.execs[1].result.ok <=> (P >= 0 /\ in_range)
                 /\ last.result.ok <=> (P >= 0 /\ in_range)

\* a pull with a positive period was built with its range starting at the
\* renewed date, and the ledger accepted it
C38_Witness ==
    /\ last.stage = "issued"
    /\ last.old_datum.period > 0
    /\ last.result.ok
    /\ last.execs[1].ctx.range.lower.value
           = last.old_datum.next_pull + last.old_datum.period
    /\ \E i \in 1..Len(utxos) :
          /\ utxos[i].owner = PullAddress
          /\ utxos[i].datum
                 = [last.old_datum EXCEPT
                       !.next_pull = last.old_datum.next_pull + last.old_datum.period]

\* -------------------------------------------- the integer encoding round trip
\* C39, as stated: for every signed 64-bit integer n, the smallest one
\* included, converting n to BigInt and back to i64 yields n, and the
\* magnitude stored equals |n|.
C39_IntegerRoundTrip ==
    (last.stage = "decoded" /\ last.kind = "int" /\ "n" \in DOMAIN last.value)
        => LET n == last.value.n
           IN  /\ last.data.pd = "BigInt"
               /\ last.data.int.neg = (n < 0)
               /\ last.data.int.val = (IF n < 0 THEN -n ELSE n)
               /\ last.result = Ok(n)

\* C39, as the code converts: the stored sign is n < 0 and the stored
\* magnitude is |n| for every n; the way back yields n for every n above the
\* smallest value; for the smallest value the negation leaves the i64 range,
\* so the way back aborts in a build with overflow checks and yields n in a
\* build without them.
C39_RoundTripAboveMinimum ==
    (last.stage = "decoded" /\ last.kind = "int" /\ "n" \in DOMAIN last.value)
        => LET n == last.value.n
           IN  /\ last.data.pd = "BigInt"
               /\ last.data.int.neg = (n < 0)
               /\ last.data.int.val = (IF n < 0 THEN -n ELSE n)
               /\ last.data.int.val \in 0..(I64Max + 1)
               /\ n > I64Min => last.result = Ok(n)
               /\ (n = I64Min /\ ~last.value.overflow_checks) => last.result = Ok(n)
               /\ (n = I64Min /\ last.value.overflow_checks)
                     => /\ ~last.result.ok
                        /\ last.result.kind = "Panic"

\* the smallest i64 was stored with magnitude 2^63 and read back in a build
\* with overflow checks
C39_Witness ==
    /\ last.stage = "decoded" /\ last.kind = "int"
    /\ "n" \in DOMAIN last.value
    /\ last.value.n = I64Min
    /\ last.value.overflow_checks
    /\ last.data.int = [neg |-> TRUE, val |-> I64Max + 1]
    /\ ~last.result.ok

====
